---- MODULE Spec2Model ----
(***************************************************************************)
(* Model of the embedded identity provider of backend/app/routes/idp.py:   *)
(* the sqlite store (users, clients, auth_codes, sessions), the login,     *)
(* authorize and token handlers, and the URL quoting that carries the      *)
(* post-login target through the login page.                               *)
(*                                                                         *)
(* Handlers that run on one connection without yielding (login_page,       *)
(* idp_login, oauth_authorize) are one action each.  oauth_token is split  *)
(* at its sqlite statements (select client / select code / delete /        *)
(* commit) and run by the workers of the thread pool that FastAPI uses for *)
(* "def" endpoints, each worker on its own connection.                     *)
(***************************************************************************)
EXTENDS Integers, Sequences, FiniteSets, TLC

\* ------------------------------------------------------------------------
\* Bounds of the model
\* ------------------------------------------------------------------------
\* Number of uuid4() values drawn: sessions and authorization codes together.
MaxUuid == 2
\* Number of clock advances.
MaxTicks == 1
\* Number of coroutines that call the HTTP client manager concurrently.
NCoroutines == 2
\* Number of httpx.AsyncClient objects constructed.
MaxClients == 2
\* The caches' capacity and lifetime of an entry (seconds), as constructed,
\* and the seconds that pass while a cache is in use.
max_size == 2
ttl == 2
MaxElapse == 3

\* The two threads of the pool that serve /oauth/token concurrently.
Workers == {1, 2}

\* ------------------------------------------------------------------------
\* Configuration (module level of idp.py)
\* ------------------------------------------------------------------------
SESSION_TTL == 3600
CODE_TTL == 300
TOKEN_TTL == 1800
SECRET == "change_this"
\* routes/api.py, translate_batch
batch_semaphore == 3
chunked_above == 15
chunk_size == 8
PASSWORD_SALT == "salt"
ISSUER == "http://localhost:4180"

\* ------------------------------------------------------------------------
\* Strings: urllib.parse.quote / unquote and query-string access
\* ------------------------------------------------------------------------
Head1(s) == SubSeq(s, 1, 1)
Tail1(s) == SubSeq(s, 2, Len(s))

StartsWith(s, p) == Len(p) <= Len(s) /\ SubSeq(s, 1, Len(p)) = p

\* Characters quote() never escapes: letters, digits and "_.-~".
AlwaysSafe ==
    {"a","b","c","d","e","f","g","h","i","j","k","l","m","n","o","p","q","r",
     "s","t","u","v","w","x","y","z","A","B","C","D","E","F",
     "0","1","2","3","4","5","6","7","8","9","_",".","-","~"}

\* The percent-escapes of the other characters that occur in the URLs.
PctTable ==
    { <<":", "%3A">>, <<"/", "%2F">>, <<"?", "%3F">>, <<"=", "%3D">>,
      <<"&", "%26">>, <<"%", "%25">>, <<" ", "%20">>, <<"+", "%2B">> }

PctEncode(c) == (CHOOSE e \in PctTable : e[1] = c)[2]

\* Concatenation of the strings piece[lo], ..., piece[hi].
RECURSIVE Join(_, _, _)
Join(piece, lo, hi) ==
    IF lo > hi THEN ""
    ELSE IF lo = hi THEN piece[lo]
    ELSE Join(piece, lo, (lo + hi) \div 2) \o Join(piece, (lo + hi) \div 2 + 1, hi)

\* urllib.parse.quote(s, safe): every character outside AlwaysSafe and safe
\* becomes its percent-escape.
QuoteChars(s, safe) ==
    Join([i \in 1..Len(s) |->
            IF SubSeq(s, i, i) \in AlwaysSafe \cup safe
            THEN SubSeq(s, i, i) ELSE PctEncode(SubSeq(s, i, i))],
         1, Len(s))

\* urllib.parse.unquote(s): every percent-escape becomes its character.  An
\* escape holds no "%" after its first character, so position i starts an
\* escape exactly when the three characters from i are one.
Unquote(s) ==
    LET IsEscape(j) == j >= 1 /\ j + 2 <= Len(s) /\ SubSeq(s, j, j) = "%"
                       /\ \E e \in PctTable : e[2] = SubSeq(s, j, j + 2)
    IN Join([i \in 1..Len(s) |->
               IF IsEscape(i)
               THEN (CHOOSE e \in PctTable : e[2] = SubSeq(s, i, i + 2))[1]
               ELSE IF IsEscape(i - 1) \/ IsEscape(i - 2) THEN ""
               ELSE SubSeq(s, i, i)],
            1, Len(s))

\* Position of the first occurrence of character c in s from position i on,
\* 0 when absent.
IndexOf(s, c, i) ==
    LET at == {j \in i..Len(s) : SubSeq(s, j, j) = c}
    IN IF at = {} THEN 0 ELSE CHOOSE j \in at : \A k \in at : j <= k

\* "+" stands for a space in a query string (parse_qsl).
PlusToSpace(s) ==
    Join([i \in 1..Len(s) |-> IF SubSeq(s, i, i) = "+" THEN " " ELSE SubSeq(s, i, i)],
         1, Len(s))

\* Value of query parameter "name" in the raw query string q
\* ("k1=v1&k2=v2"): the set holding the decoded value, empty when absent.
RECURSIVE QueryValue(_, _)
QueryValue(q, name) ==
    IF q = "" THEN {}
    ELSE LET amp  == IndexOf(q, "&", 1)
             item == IF amp = 0 THEN q ELSE SubSeq(q, 1, amp - 1)
             rest == IF amp = 0 THEN "" ELSE SubSeq(q, amp + 1, Len(q))
         IN IF StartsWith(item, name \o "=")
            THEN {Unquote(PlusToSpace(SubSeq(item, Len(name) + 2, Len(item))))}
            ELSE QueryValue(rest, name)

\* The query parameter "name" of a request URL, as the framework hands it
\* to a handler: the set holding its value, empty when absent.
QueryParamChars(url, name) ==
    LET qm == IndexOf(url, "?", 1)
    IN IF qm = 0 THEN {} ELSE QueryValue(SubSeq(url, qm + 1, Len(url)), name)

\* ------------------------------------------------------------------------
\* Inputs of the login and authorization endpoints
\* ------------------------------------------------------------------------
\* Credentials posted to the login endpoint: the two users' own, a wrong
\* password, and an unknown user.
Credentials ==
    { <<"admin", "password">>, <<"bob", "hunter2">>, <<"admin", "hunter2">>,
      <<"mallory", "password">> }

GoodCredentials == { <<"admin", "password">>, <<"bob", "hunter2">> }

AuthReq(c, r, t, s) ==
    [client_id |-> c, redirect_uri |-> r, response_type |-> t, state |-> s]

\* Authorization requests: the registered pairs, a redirect_uri that extends
\* the registered one, one registered for another client, an unknown client,
\* another response_type, and a request without state.
AuthorizeRequests ==
    { AuthReq("frontend-app", "http://localhost:3000", "code", "xyz"),
      AuthReq("frontend-app", "http://localhost:3000", "code", ""),
      AuthReq("frontend-app", "http://localhost:3000.evil.example", "code", "xyz"),
      AuthReq("frontend-app", "https://app/cb", "code", "xyz"),
      AuthReq("app1", "https://app/cb", "code", "xyz"),
      AuthReq("ghost", "http://localhost:3000", "code", "xyz"),
      AuthReq("frontend-app", "http://localhost:3000", "token", "xyz") }


\* The URL a client application sends the user agent to, with the query
\* parameters form-encoded.
AuthorizeUrl(r) ==
    ISSUER \o "/oauth/authorize?client_id=" \o QuoteChars(r.client_id, {})
           \o "&redirect_uri=" \o QuoteChars(r.redirect_uri, {})
           \o "&response_type=" \o QuoteChars(r.response_type, {})
           \o (IF r.state # "" THEN "&state=" \o QuoteChars(r.state, {}) ELSE "")

UrlOf == [r \in AuthorizeRequests |-> AuthorizeUrl(r)]

\* A link to the login page that somebody else composed, with a target on
\* another origin.
CraftedLoginUrl == "/idp/login?next=https%3A//evil.example/"

\* Characters starlette's RedirectResponse leaves unescaped in Location.
RedirectSafe == {":", "/", "%", "#", "?", "=", "@", "[", "]", "!", "$", "&",
                 "'", "(", ")", "*", "+", ",", ";"}

\* Where oauth_authorize sends the user agent with a code.
CodeRedirect(q, code) ==
    q.redirect_uri \o "?code=" \o code \o
    (IF q.state # "" THEN "&state=" \o q.state ELSE "")

\* quote() of the strings that the handlers quote in every state, evaluated
\* once: the request URLs, the login redirects made of them, the redirects
\* with a code, and the targets of the login form.
QuoteTable ==
    [x \in {<<UrlOf[r], {"/"}>> : r \in AuthorizeRequests} \cup
           {<<UrlOf[r], RedirectSafe>> : r \in AuthorizeRequests} \cup
           {<<"/idp/login?next=" \o QuoteChars(UrlOf[r], {"/"}), RedirectSafe>> :
               r \in AuthorizeRequests} \cup
           {<<CodeRedirect(r, ToString(n)), RedirectSafe>> :
               r \in AuthorizeRequests, n \in 1..MaxUuid} \cup
           {<<t, safe>> : t \in {"/", "https://evil.example/"},
                          safe \in {{"/"}, RedirectSafe}}
     |-> QuoteChars(x[1], x[2])]

Quote(s, safe) ==
    IF <<s, safe>> \in DOMAIN QuoteTable THEN QuoteTable[<<s, safe>>]
    ELSE QuoteChars(s, safe)

\* The query parameters of the same strings, parsed once.
QueryTable ==
    [x \in {<<"/idp/login?next=" \o QuoteChars(UrlOf[r], {"/"}), "next">> :
               r \in AuthorizeRequests} \cup
           {<<UrlOf[r], n>> : r \in AuthorizeRequests,
               n \in {"client_id", "redirect_uri", "response_type", "state"}} \cup
           {<<u, "next">> : u \in {"/idp/login", "/idp/login?next=/",
                                   CraftedLoginUrl}} \cup
           {<<QuoteChars(CodeRedirect(r, ToString(n)), RedirectSafe), p>> :
               r \in AuthorizeRequests, n \in 1..MaxUuid, p \in {"code", "state"}}
     |-> QueryParamChars(x[1], x[2])]

QueryParam(url, name) ==
    IF <<url, name>> \in DOMAIN QueryTable THEN QueryTable[<<url, name>>]
    ELSE QueryParamChars(url, name)


\* ------------------------------------------------------------------------
\* State
\* ------------------------------------------------------------------------
VARIABLES
    now,        \* int(time.time())
    ticks,      \* number of clock advances so far
    users,      \* table users
    clients,    \* table clients
    sessions,   \* table sessions
    auth_codes, \* table auth_codes (committed rows)
    nUuid,      \* number of uuid4() values drawn so far
    jar,        \* session ids that user agents received in a Set-Cookie
    req,        \* the last login_page / idp_login / oauth_authorize request,
                \* or request that the framework answered without a handler
    resp,       \* the response to it
    form,       \* action URL of the login form a user agent displays, "" if none
    tok,        \* per worker: the oauth_token call it is serving
    dbLock,     \* worker holding sqlite's write lock, 0 when free
    codeLog,    \* history: every auth_codes row ever inserted, with its session
    issued,     \* history: every access token returned, in order
    jwt,        \* the token sign_jwt returned last, with its claims (none or one)
    check,      \* the latest call, if a verify_jwt call: token, time, result
    info,       \* the latest call, if a GET /oauth/userinfo: header, response
    gate,       \* the latest call, if a request to /api: headers, outcome
    _client,    \* HTTPClientManager._client: 0 for None, else the AsyncClient
    _lock,      \* HTTPClientManager._lock: the coroutine holding it, 0 if free
    aclients,   \* every AsyncClient constructed, in order: "open", "closing"
                \* (aclose awaited, not finished) or "closed"
    co,         \* per coroutine: the manager call it is in and what the last
                \* get_client returned
    cache,      \* TranslationCache.cache / RAGCache.cache, in insertion order
    cacheCall,  \* the latest get or set on the cache, with its result
    lastSet,    \* history: per text, the value of the latest set ("" if none)
    batch,      \* the /translate_batch request being served, with its tasks
    blobs,      \* names of the blobs in the storage container
    upload      \* the latest /upload-pdf request, with its response

apiVars == <<jwt, check, info, gate>>

\* The tables and calls of the identity provider, the clock apart.
idpVars == <<ticks, users, clients, sessions, auth_codes, nUuid, jar, req, resp,
             form, tok, dbLock, codeLog, issued>>

\* What a call to one of the services behind /api leaves alone.
OnlyHttp ==
    UNCHANGED <<now, idpVars, apiVars, cache, cacheCall, lastSet, batch, blobs,
                upload>>
OnlyCache ==
    UNCHANGED <<idpVars, apiVars, _client, _lock, aclients, co, batch, blobs,
                upload>>
OnlyBatch ==
    UNCHANGED <<now, idpVars, apiVars, _client, _lock, aclients, co, cache,
                cacheCall, lastSet, blobs, upload>>
OnlyBlobs ==
    UNCHANGED <<now, idpVars, apiVars, _client, _lock, aclients, co, cache,
                cacheCall, lastSet, batch>>

\* The state of the services behind /api.
svcVars == <<_client, _lock, aclients, co, cache, cacheCall, lastSet, batch,
             blobs, upload>>

\* A call to another endpoint: none of the three is the latest call any more.
OtherCall ==
    /\ jwt' = jwt /\ check' = {} /\ info' = {} /\ gate' = {}
    /\ UNCHANGED svcVars

vars == <<now, ticks, users, clients, sessions, auth_codes, nUuid, jar, req,
          resp, form, tok, dbLock, codeLog, issued, jwt, check, info, gate,
          _client, _lock, aclients, co, cache, cacheCall, lastSet, batch,
          blobs, upload>>

\* ------------------------------------------------------------------------
\* Password hasher and token signer
\* ------------------------------------------------------------------------
hash_password(pw) == <<"sha256", PASSWORD_SALT \o pw>>

\* ------------------------------------------------------------------------
\* JSON Web Tokens.
\*
\* A token is held as the sequence of its "."-separated segments: split(".")
\* of a string and the f"{h}.{p}.{sig}" of dot-free segments are inverse to
\* each other.  A segment is the base64url text of some bytes, or text that
\* the decoder refuses.  Bytes are a JSON document, an HMAC digest, or bytes
\* that are no JSON.  A dict is held as its members, with an exp member that
\* is no integer held apart together with its JSON type.
\* ------------------------------------------------------------------------
None == [none |-> TRUE]

Dict(members) == [members |-> members, odd_exp |-> {}]

DictOddExp(members, exp) == [members |-> members, odd_exp |-> {exp}]

b64url(data) == [b64 |-> data]

RawSegment(text) == [raw |-> text]

\* base64.urlsafe_b64decode(p + "=="): the bytes, or none where it raises.
urlsafe_b64decode(seg) == IF "b64" \in DOMAIN seg THEN {seg.b64} ELSE {}

\* json.dumps(payload, separators=(",", ":")).encode()
json_dumps(payload) == [json |-> [type |-> "object", value |-> payload]]

\* json.loads: the document, or none where it raises.
json_loads(bytes) == IF "json" \in DOMAIN bytes THEN {bytes.json} ELSE {}

\* hmac.new(key, msg, hashlib.sha256).digest(), collision free; msg is the
\* header and payload segments joined by ".".
hmac_sha256(key, h, p) == [hmac |-> key, h |-> h, p |-> p]

JwtHeader == Dict([alg |-> "HS256", typ |-> "JWT"])

sign_jwt(payload) ==
    LET h   == b64url(json_dumps(JwtHeader))
        p   == b64url(json_dumps(payload))
        sig == b64url(hmac_sha256(SECRET, h, p))
    IN <<h, p, sig>>

\* payload.get("exp", 0), with its JSON type.
ExpMember(payload) ==
    IF payload.odd_exp # {} THEN CHOOSE e \in payload.odd_exp : TRUE
    ELSE IF "exp" \in DOMAIN payload.members
         THEN [t |-> "int", v |-> payload.members.exp]
         ELSE [t |-> "int", v |-> 0]

DigitValue == [c \in {"0", "1", "2", "3", "4", "5", "6", "7", "8", "9"} |->
                 CASE c = "0" -> 0 [] c = "1" -> 1 [] c = "2" -> 2 [] c = "3" -> 3
                   [] c = "4" -> 4 [] c = "5" -> 5 [] c = "6" -> 6 [] c = "7" -> 7
                   [] c = "8" -> 8 [] c = "9" -> 9]

IsDecimal(text) ==
    /\ Len(text) > 0
    /\ \A i \in 1..Len(text) : SubSeq(text, i, i) \in DOMAIN DigitValue

RECURSIVE ParseDecimal(_)
ParseDecimal(text) ==
    IF Len(text) = 0 THEN 0
    ELSE 10 * ParseDecimal(SubSeq(text, 1, Len(text) - 1))
         + DigitValue[SubSeq(text, Len(text), Len(text))]

\* int(x): the integer, or none where it raises (text that is no number,
\* null).
PyInt(x) ==
    IF x.t = "int" THEN {x.v}
    ELSE IF x.t = "str" /\ IsDecimal(x.v) THEN {ParseDecimal(x.v)}
    ELSE {}

\* A comparison that accepts every signature.
AnySignature(s, sig) == TRUE

\* "if s != sig: return None"
SignatureMatches(s, sig) == s = sig

\* A check that forgets the clock.
JwtNeverExpired(exp, t) == FALSE

\* "if exp and exp < int(time.time()): return None"
JwtExpired(exp, t) == exp # 0 /\ exp < t

Return(value) == [raised |-> FALSE, value |-> value]

Raise(exception) == [raised |-> TRUE, value |-> [exception |-> exception]]

\* The body of the try block of verify_jwt, at time t.
verify_jwt_try(token, t) ==
    IF Len(token) # 3 THEN Raise("ValueError")
    ELSE LET h   == token[1]
             p   == token[2]
             s   == token[3]
             sig == b64url(hmac_sha256(SECRET, h, p))
         IN IF ~SignatureMatches(s, sig) THEN Return(None)
            ELSE LET bytes == urlsafe_b64decode(p)
                 IN IF bytes = {} THEN Raise("binascii.Error")
                    ELSE LET docs == json_loads(CHOOSE b \in bytes : TRUE)
                         IN IF docs = {} THEN Raise("JSONDecodeError")
                            ELSE LET doc == CHOOSE d \in docs : TRUE
                                 IN IF doc.type # "object"
                                    THEN Raise("AttributeError")
                                    ELSE LET exp == PyInt(ExpMember(doc.value))
                                         IN IF exp = {} THEN Raise("ValueError")
                                            ELSE IF \E e \in exp : JwtExpired(e, t)
                                            THEN Return(None)
                                            ELSE Return(doc.value)

\* A handler that lets the exception through.
verify_jwt_uncaught(token, t) == verify_jwt_try(token, t).value

\* "except Exception: return None"
verify_jwt(token, t) ==
    LET r == verify_jwt_try(token, t)
    IN IF r.raised THEN None ELSE r.value

\* A generator that draws the same value every time.
uuid4_repeated(n) == "1"

\* uuid.uuid4().hex: the n-th value drawn differs from all earlier ones.
uuid4_hex(n) == ToString(n)

\* ------------------------------------------------------------------------
\* The store at start-up: init_db() keeps the rows the database file already
\* holds, here a user and a client registered earlier; seed_data() adds the
\* default client and user when absent.
\* ------------------------------------------------------------------------
PriorDb ==
    [users   |-> {[id |-> 1, username |-> "bob",
                   password_hash |-> hash_password("hunter2"),
                   email |-> "bob@example.com", name |-> "Bob"]},
     clients |-> {[id |-> 1, client_id |-> "app1", client_secret |-> "s1",
                   redirect_uri |-> "https://app/cb"]}]

\* sqlite autoincrement: one more than the largest id in use.
NextId(rows) == IF rows = {} THEN 1 ELSE 1 + CHOOSE m \in {r.id : r \in rows} :
                                              \A r \in rows : r.id <= m

\* A seeding that writes the default rows over the ones it finds.
seed_data_replacing(db) ==
    LET keptC == {c \in db.clients : c.client_id # "frontend-app"}
        keptU == {u \in db.users : u.username # "admin"}
    IN [users |-> keptU \cup
                  {[id |-> NextId(db.users), username |-> "admin",
                    password_hash |-> hash_password("password"),
                    email |-> "admin@example.com", name |-> "System Admin"]},
        clients |-> keptC \cup
                  {[id |-> NextId(db.clients), client_id |-> "frontend-app",
                    client_secret |-> "frontend-secret",
                    redirect_uri |-> "http://localhost:3000"]}]

seed_data(db) ==
    LET cs == IF \E c \in db.clients : c.client_id = "frontend-app"
              THEN db.clients
              ELSE db.clients \cup
                   {[id |-> NextId(db.clients), client_id |-> "frontend-app",
                     client_secret |-> "frontend-secret",
                     redirect_uri |-> "http://localhost:3000"]}
        us == IF \E u \in db.users : u.username = "admin"
              THEN db.users
              ELSE db.users \cup
                   {[id |-> NextId(db.users), username |-> "admin",
                     password_hash |-> hash_password("password"),
                     email |-> "admin@example.com", name |-> "System Admin"]}
    IN [users |-> us, clients |-> cs]

\* ------------------------------------------------------------------------
\* Responses
\* ------------------------------------------------------------------------
NoResponse ==
    [op |-> "none", status |-> 0, detail |-> "", location |-> "",
     set_cookie |-> "", token |-> {}, token_type |-> "", expires_in |-> 0]

Reply(op, status, detail) ==
    [op |-> op, status |-> status, detail |-> detail, location |-> "",
     set_cookie |-> "", token |-> {}, token_type |-> "", expires_in |-> 0]

RedirectResponse(op, url, status) ==
    [op |-> op, status |-> status, detail |-> "",
     location |-> Quote(url, RedirectSafe), set_cookie |-> "", token |-> {},
     token_type |-> "", expires_in |-> 0]

\* A request: the URL requested, the session_id cookie sent, the form
\* fields posted ("" for a field that is not sent), and the X-Admin-Token
\* header ("" when absent).
Request(url, cookie, username, password) ==
    [url |-> url, cookie |-> cookie, username |-> username, password |-> password,
     x_admin_token |-> ""]

\* ------------------------------------------------------------------------
\* services/http_client.py: HTTPClientManager
\* ------------------------------------------------------------------------
\* The coroutines of the event loop that use the manager.  One runs until it
\* awaits something that is not ready; the steps below are those stretches.
\* Waiting for _lock is a stretch boundary: acquire() suspends the caller
\* whenever the lock is held.
Coroutines == 1..NCoroutines

NoManagerCall == [op |-> "", pc |-> "done", ret |-> 0]

\* A second client for every caller that reaches the lock.
ClientMissingAlways(c) == TRUE

\* `if self._client is None:` inside the lock
ClientMissing(c) == c = 0

\* A coroutine calls get_client().
GetClientCall(t) ==
    /\ co[t].pc = "done"
    /\ co' = [co EXCEPT ![t] = [op |-> "get_client", pc |-> "check", ret |-> 0]]
    /\ UNCHANGED <<_client, _lock, aclients>>
    /\ OnlyHttp

\* `if self._client is None:` before the lock; when a client is there,
\* `return self._client` follows at once.
GetClientCheck(t) ==
    /\ co[t].op = "get_client" /\ co[t].pc = "check"
    /\ co' = [co EXCEPT ![t] = IF _client = 0
                                THEN [@ EXCEPT !.pc = "lock"]
                                ELSE [@ EXCEPT !.pc = "done", !.ret = _client]]
    /\ UNCHANGED <<_client, _lock, aclients>>
    /\ OnlyHttp

\* `async with self._lock:` entered: the second test, the construction of
\* the client, the release of the lock and `return self._client` run without
\* an await between them.
GetClientLocked(t) ==
    /\ co[t].op = "get_client" /\ co[t].pc = "lock"
    /\ _lock = 0
    /\ IF ClientMissing(_client)
       THEN /\ Len(aclients) < MaxClients
            /\ aclients' = Append(aclients, "open")
            /\ _client' = Len(aclients) + 1
       ELSE UNCHANGED <<_client, aclients>>
    /\ co' = [co EXCEPT ![t] = [@ EXCEPT !.pc = "done", !.ret = _client']]
    /\ UNCHANGED _lock
    /\ OnlyHttp

\* A coroutine calls close().
CloseCall(t) ==
    /\ co[t].pc = "done"
    /\ co' = [co EXCEPT ![t] = [op |-> "close", pc |-> "check", ret |-> 0]]
    /\ UNCHANGED <<_client, _lock, aclients>>
    /\ OnlyHttp

\* `if self._client is not None:` before the lock
CloseCheck(t) ==
    /\ co[t].op = "close" /\ co[t].pc = "check"
    /\ co' = [co EXCEPT ![t] = IF _client # 0
                                THEN [@ EXCEPT !.pc = "lock"]
                                ELSE [@ EXCEPT !.pc = "done"]]
    /\ UNCHANGED <<_client, _lock, aclients>>
    /\ OnlyHttp

\* The lock entered: the second test, then `await self._client.aclose()`
\* starts and the coroutine is suspended in it, holding the lock.
CloseLocked(t) ==
    /\ co[t].op = "close" /\ co[t].pc = "lock"
    /\ _lock = 0
    /\ IF _client # 0
       THEN /\ _lock' = t
            /\ aclients' = [aclients EXCEPT ![_client] = "closing"]
            /\ co' = [co EXCEPT ![t] = [@ EXCEPT !.pc = "aclose"]]
       ELSE /\ co' = [co EXCEPT ![t] = [@ EXCEPT !.pc = "done"]]
            /\ UNCHANGED <<_lock, aclients>>
    /\ UNCHANGED _client
    /\ OnlyHttp

\* aclose() finishes: `self._client = None`, and the lock is released.
AcloseDone(t) ==
    /\ co[t].op = "close" /\ co[t].pc = "aclose"
    /\ aclients' = [aclients EXCEPT ![_client] = "closed"]
    /\ _client' = 0
    /\ _lock' = 0
    /\ co' = [co EXCEPT ![t] = [@ EXCEPT !.pc = "done"]]
    /\ OnlyHttp

\* ------------------------------------------------------------------------
\* services/llm.py: TranslationCache; services/rag.py: RAGCache (same code)
\* ------------------------------------------------------------------------
\* self.cache is a dict, kept here in its insertion order: entries
\* [key, result, timestamp].  None is {}, a value v is {v}.
CacheTexts == {"neko", "inu", "tori"}
CacheValues == {"cat", "dog"}

\* hashlib.md5(text.encode()).hexdigest(): distinct for distinct texts here.
_generate_cache_key(text) == "md5:" \o text

\* Position of a key in the dict, 0 when absent.
KeyIndex(entries, key) ==
    IF \E i \in 1..Len(entries) : entries[i].key = key
    THEN CHOOSE i \in 1..Len(entries) : entries[i].key = key
    ELSE 0

\* del self.cache[key]
DelKey(entries, key) ==
    SelectSeq(entries, LAMBDA e : e.key # key)

\* An entry is served also in the second its lifetime ends.
FreshAtTtl(timestamp, t) == t - timestamp <= ttl

\* `time.time() - timestamp < self.ttl`
Fresh(timestamp, t) == t - timestamp < ttl

\* A cache that never counts as full.
NeverFull(entries) == FALSE

\* `len(self.cache) >= self.max_size`
Full(entries) == Len(entries) >= max_size

\* min(self.cache.keys(), key=lambda k: self.cache[k][1]): the first key, in
\* the dict's order, among those of the least timestamp.
oldest_key(entries) ==
    LET i == CHOOSE i \in 1..Len(entries) :
                 /\ \A j \in 1..Len(entries) :
                        entries[i].timestamp <= entries[j].timestamp
                 /\ \A j \in 1..(i - 1) :
                        entries[j].timestamp > entries[i].timestamp
    IN entries[i].key

\* get(text) at time t: the dict afterwards and the value returned.
get(entries, text, t) ==
    LET cache_key == _generate_cache_key(text)
        i == KeyIndex(entries, cache_key)
    IN IF i # 0
       THEN IF Fresh(entries[i].timestamp, t)
            THEN [cache |-> entries, result |-> {entries[i].result}]
            ELSE [cache |-> DelKey(entries, cache_key), result |-> {}]
       ELSE [cache |-> entries, result |-> {}]

\* set(text, value) at time t: the dict afterwards.  Assigning to a key
\* that is present keeps its place in the dict's order.
set(entries, text, value, t) ==
    LET cache_key == _generate_cache_key(text)
        kept == IF Full(entries) THEN DelKey(entries, oldest_key(entries))
                ELSE entries
        i == KeyIndex(kept, cache_key)
        entry == [key |-> cache_key, result |-> value, timestamp |-> t]
    IN IF i # 0 THEN [kept EXCEPT ![i] = entry] ELSE Append(kept, entry)

NoCacheCall == [op |-> "", text |-> "", value |-> "", result |-> {}, at |-> 0]

CacheGet ==
    /\ \E text \in CacheTexts :
          /\ cache' = get(cache, text, now).cache
          /\ cacheCall' = [op |-> "get", text |-> text, value |-> "",
                           result |-> get(cache, text, now).result, at |-> now]
    /\ UNCHANGED <<now, lastSet>>
    /\ OnlyCache

CacheSet ==
    /\ \E text \in CacheTexts, value \in CacheValues :
          /\ cache' = set(cache, text, value, now)
          /\ cacheCall' = [op |-> "set", text |-> text, value |-> value,
                           result |-> {}, at |-> now]
          /\ lastSet' = [lastSet EXCEPT ![text] = value]
    /\ UNCHANGED now
    /\ OnlyCache

\* time.time() moves on between two calls.
Elapse ==
    /\ now < MaxElapse
    /\ now' = now + 1
    /\ UNCHANGED <<cache, cacheCall, lastSet>>
    /\ OnlyCache

\* ------------------------------------------------------------------------
\* routes/api.py: POST /translate_batch
\* ------------------------------------------------------------------------
\* The two services are external.  What they answer for a text is fixed by
\* these tables, one text for each way a call can end.
\*   rag.search: "hits", "nothing" (no document found), "failed" (an HTTP
\*   error or a timeout, which search logs and turns into None) or
\*   "malformed" (a 200 whose search_result is not a dict of dicts).
rag_search(text) ==
    CASE text = "arigato" -> "failed"
      [] text = "sayonara" -> "nothing"
      [] text = "mojibake" -> "malformed"
      [] OTHER -> "hits"

\* rag.extract_samples(rag_result): None and an empty result give no
\* samples; a malformed one raises AttributeError.
extract_samples(rag_result) ==
    CASE rag_result = "hits" -> [raises |-> FALSE, samples |-> "samples"]
      [] rag_result = "malformed" -> [raises |-> TRUE, samples |-> ""]
      [] OTHER -> [raises |-> FALSE, samples |-> ""]

\* llm.translate(prompt): None when the call failed (translate catches every
\* exception), "" when the cleaned answer is empty, else the translation.
\* None is {}, a string s is {s}.
llm_translate(text, samples) ==
    CASE text = "kaizen" -> {}
      [] text = "tsundoku" -> {""}
      [] OTHER -> {"en:" \o text}

\* translate_single_safe(text): `return translation or text`, and text again
\* when anything raised.
translate_single_safe(text) ==
    LET extracted == extract_samples(rag_search(text))
        translation == llm_translate(text, extracted.samples)
    IN IF extracted.raises THEN text
       ELSE IF translation = {} \/ translation = {""} THEN text
       ELSE CHOOSE s \in translation : TRUE

RECURSIVE full_chunks_only(_)
\* The slices of full length only.
full_chunks_only(texts) ==
    IF Len(texts) < chunk_size THEN <<>>
    ELSE <<SubSeq(texts, 1, chunk_size)>>
         \o full_chunks_only(SubSeq(texts, chunk_size + 1, Len(texts)))

RECURSIVE chunks(_)
\* [req.texts[i:i + chunk_size] for i in range(0, len(req.texts), chunk_size)]
chunks(texts) ==
    IF Len(texts) = 0 THEN <<>>
    ELSE IF Len(texts) <= chunk_size THEN <<texts>>
    ELSE <<SubSeq(texts, 1, chunk_size)>>
         \o chunks(SubSeq(texts, chunk_size + 1, Len(texts)))

\* The lists of awaitables handed to asyncio.gather, in order: the chunks
\* when there are more than 15 texts, else req.texts as a whole.
Gathers(texts) ==
    IF Len(texts) > chunked_above THEN chunks(texts) ELSE <<texts>>

\* Request bodies: texts of the lengths around the two limits, each way a
\* call can end among them, at two alignments.
BatchWords == <<"ohayo", "arigato", "kaizen", "sayonara", "mojibake",
                "tsundoku", "ikigai">>
BatchLengths == {0, 2, 15, 16, 17}
BatchTexts ==
    {[i \in 1..n |-> BatchWords[((i + k) % Len(BatchWords)) + 1]] :
        n \in BatchLengths, k \in {0, 3}}

NoBatch == [texts |-> <<>>, gathers |-> <<>>, g |-> 0, started |-> 0,
            running |-> {}, results |-> <<>>, all_translations |-> <<>>,
            response |-> {}]

\* gather number g of the request starts: nothing entered the semaphore yet.
GatherFrom(b, g) ==
    [b EXCEPT !.g = g, !.started = 0, !.running = {},
              !.results = [i \in 1..Len(b.gathers[g]) |-> {}]]

\* The request arrives; the first gather is created.
TranslateBatch ==
    /\ batch.g = 0
    /\ \E texts \in BatchTexts :
          batch' = GatherFrom([NoBatch EXCEPT !.texts = texts,
                                              !.gathers = Gathers(texts)], 1)
    /\ UNCHANGED now
    /\ OnlyBatch

\* `async with batch_semaphore:` the next task of the gather, in the order
\* of creation, enters when fewer than three are inside.
ItemEnter ==
    /\ batch.g # 0
    /\ batch.started < Len(batch.gathers[batch.g])
    /\ Cardinality(batch.running) < batch_semaphore
    /\ batch' = [batch EXCEPT !.started = @ + 1,
                              !.running = @ \cup {batch.started + 1}]
    /\ UNCHANGED now
    /\ OnlyBatch

\* One of the tasks inside returns; gather keeps its value at the task's
\* position.
ItemReturn ==
    /\ batch.g # 0
    /\ \E i \in batch.running :
          batch' = [batch EXCEPT
                      !.running = @ \ {i},
                      !.results[i] =
                          {translate_single_safe(batch.gathers[batch.g][i])}]
    /\ UNCHANGED now
    /\ OnlyBatch

\* The values of a finished gather, in the order of its awaitables.
Gathered(results) ==
    [i \in 1..Len(results) |-> CHOOSE s \in results[i] : TRUE]

\* Every task of the gather returned: the chunked path extends
\* all_translations and goes on to the next chunk or answers; the other
\* path answers with the values of its one gather.
GatherDone ==
    /\ batch.g # 0
    /\ batch.started = Len(batch.gathers[batch.g])
    /\ batch.running = {}
    /\ LET extended == batch.all_translations \o Gathered(batch.results)
       IN IF batch.g < Len(batch.gathers)
          THEN batch' = GatherFrom([batch EXCEPT !.all_translations = extended],
                                   batch.g + 1)
          ELSE batch' = [batch EXCEPT !.g = 0, !.started = 0, !.results = <<>>,
                                      !.all_translations = extended,
                                      !.response = {extended}]
    /\ UNCHANGED now
    /\ OnlyBatch

\* ------------------------------------------------------------------------
\* routes/api.py: POST /upload-pdf, with services/blob_cache.py and
\* services/dx_suite_ocr.py
\* ------------------------------------------------------------------------
\* The container holds blobs [name, body].  The storage account is "up" or
\* "down" for the length of a request; the OCR service answers "done",
\* "no job" (no job id came back) or "error" (the calls raised).
UploadFiles ==
    [content : {"%PDF-a", "%PDF-b"}, filename : {"scan.pdf", ""},
     content_type : {"application/pdf", "image/png"}]

\* hashlib.md5(file_content).hexdigest(): distinct for distinct contents here.
calculate_file_hash(file_content) == "md5:" \o file_content

get_pdf_blob_name(file_hash, filename) ==
    "pdf/" \o file_hash \o "_" \o filename

get_ocr_blob_name(file_hash) == "json/" \o file_hash \o ".json"

\* get_cached_ocr: the stored result, None ({}) when the blob is absent or
\* the storage call raised.
get_cached_ocr(container, file_hash, storage) ==
    IF storage = "down" THEN {}
    ELSE {b.body : b \in {b \in container :
                              b.name = get_ocr_blob_name(file_hash)}}

\* save_pdf_file, the storage being up: uploads only when the blob is absent.
save_pdf_file(container, file_content, filename) ==
    LET blob_name == get_pdf_blob_name(calculate_file_hash(file_content),
                                       filename)
    IN IF \E b \in container : b.name = blob_name THEN container
       ELSE container \cup {[name |-> blob_name, body |-> file_content]}

\* save_ocr_result, the storage being up: upload_blob(..., overwrite=True)
save_ocr_result(container, file_hash, ocr_data) ==
    {b \in container : b.name # get_ocr_blob_name(file_hash)}
    \cup {[name |-> get_ocr_blob_name(file_hash), body |-> ocr_data]}

\* DXSuiteOCRService.process_pdf: the result, None ({}) when no job id came
\* back or anything raised.
process_pdf(pdf_content, answer) ==
    IF answer = "done" THEN {"ocr:" \o pdf_content} ELSE {}

\* upload_pdf: the response and the container afterwards.  `raised` is what
\* was raised inside the try block; `except Exception` catches it, an
\* HTTPException included, and answers 500.
upload_pdf(file, storage, answer, container) ==
    LET file_hash == calculate_file_hash(file.content)
        cached_ocr == get_cached_ocr(container, file_hash, storage)
        saved == save_pdf_file(container, file.content,
                               IF file.filename = "" THEN "uploaded.pdf"
                               ELSE file.filename)
        ocr_result == process_pdf(file.content, answer)
    IN IF file.content_type # "application/pdf"
       THEN [status |-> 400, raised |-> "", cache_hit |-> FALSE,
             ocr_data |-> {}, blobs |-> container]
       ELSE IF cached_ocr # {}
       THEN [status |-> 200, raised |-> "", cache_hit |-> TRUE,
             ocr_data |-> cached_ocr, blobs |-> container]
       ELSE IF storage = "down"
       THEN [status |-> 500, raised |-> "Exception", cache_hit |-> FALSE,
             ocr_data |-> {}, blobs |-> container]
       ELSE IF ocr_result = {}
       THEN [status |-> 500, raised |-> "HTTPException(502)",
             cache_hit |-> FALSE, ocr_data |-> {}, blobs |-> saved]
       ELSE [status |-> 200, raised |-> "", cache_hit |-> FALSE,
             ocr_data |-> ocr_result,
             blobs |-> save_ocr_result(saved, file_hash,
                                       CHOOSE d \in ocr_result : TRUE)]

NoUpload == [file |-> [content |-> "", filename |-> "", content_type |-> ""],
             storage |-> "", answer |-> "", cached |-> FALSE, status |-> 0,
             raised |-> "", cache_hit |-> FALSE]

UploadPdf ==
    /\ \E file \in UploadFiles, storage \in {"up", "down"},
          answer \in {"done", "no job", "error"} :
          LET r == upload_pdf(file, storage, answer, blobs)
          IN /\ blobs' = r.blobs
             /\ upload' = [file |-> file, storage |-> storage,
                           answer |-> answer,
                           cached |-> get_cached_ocr(
                                          blobs,
                                          calculate_file_hash(file.content),
                                          storage) # {},
                           status |-> r.status, raised |-> r.raised,
                           cache_hit |-> r.cache_hit]
    /\ OnlyBlobs

\* The services as the import of their modules leaves them: no client, an
\* empty cache, no request; the container is empty.
ServicesStarted ==
    /\ _client = 0
    /\ _lock = 0
    /\ aclients = <<>>
    /\ co = [t \in Coroutines |-> NoManagerCall]
    /\ cache = <<>>
    /\ cacheCall = NoCacheCall
    /\ lastSet = [text \in CacheTexts |-> ""]
    /\ batch = NoBatch
    /\ blobs = {}
    /\ upload = NoUpload

IdleCall == [pc |-> "idle", code |-> "", client_id |-> "", client_secret |-> "",
             redirect_uri |-> "", grant_type |-> "", a |-> {}, readAt |-> 0,
             resp |-> NoResponse]

Init ==
    /\ now = 0
    /\ ticks = 0
    /\ users = seed_data(PriorDb).users
    /\ clients = seed_data(PriorDb).clients
    /\ sessions = {}
    /\ auth_codes = {}
    /\ nUuid = 0
    /\ jar = {}
    /\ req = Request("", "", "", "")
    /\ resp = NoResponse
    /\ form = ""
    /\ tok = [w \in Workers |-> IdleCall]
    /\ dbLock = 0
    /\ codeLog = {}
    /\ issued = <<>>
    /\ jwt = {}
    /\ check = {}
    /\ info = {}
    /\ gate = {}
    /\ ServicesStarted

\* ------------------------------------------------------------------------
\* The clock.  It advances to an expiry of a stored session or code, or to
\* the second after one, so that every expiry is met exactly and passed; it
\* advances by a second while nothing is stored.  The exp of a signed token
\* counts as an expiry as well.
Expiries ==
    {x.expires_at : x \in sessions \cup auth_codes}
    \cup {j.claims.members.exp :
            j \in {k \in jwt : "exp" \in DOMAIN k.claims.members}}

TickTargets ==
    IF Expiries = {} THEN {now + 1}
    ELSE {t \in Expiries \cup {e + 1 : e \in Expiries} : t > now}

Tick ==
    /\ ticks < MaxTicks
    /\ \E t \in TickTargets : now' = t
    /\ ticks' = ticks + 1
    /\ UNCHANGED <<apiVars, svcVars>>
    /\ UNCHANGED <<users, clients, sessions, auth_codes, nUuid, jar, req, resp,
                   form, tok, dbLock, codeLog, issued>>

\* ------------------------------------------------------------------------
\* Inputs of the token endpoint
\* ------------------------------------------------------------------------
TokenReq(c, s, r, g) ==
    [client_id |-> c, client_secret |-> s, redirect_uri |-> r, grant_type |-> g]

\* Token requests, each sent with any code issued so far or an unknown one:
\* the two registered clients with their secrets and redirect_uris, another
\* redirect_uri, another client's secret, an unknown client, and another
\* grant asked by a registered and by an unknown client.
TokenRequests ==
    { TokenReq("frontend-app", "frontend-secret", "http://localhost:3000",
               "authorization_code"),
      TokenReq("frontend-app", "frontend-secret", "https://app/cb",
               "authorization_code"),
      TokenReq("frontend-app", "s1", "http://localhost:3000", "authorization_code"),
      TokenReq("app1", "s1", "https://app/cb", "authorization_code"),
      TokenReq("ghost", "frontend-secret", "http://localhost:3000",
               "authorization_code"),
      TokenReq("frontend-app", "frontend-secret", "http://localhost:3000",
               "password"),
      TokenReq("ghost", "frontend-secret", "http://localhost:3000", "password") }

\* A code value that oauth_authorize never issued.
UnknownCode == "0"

\* A cookie value that names no session.
BogusSid == "deadbeef"

\* Cookies a user agent can present: none, a made-up one, or one it was sent.
Cookies == {"", BogusSid} \cup jar

\* ------------------------------------------------------------------------
\* GET /idp/login
\* ------------------------------------------------------------------------
\* The form action that login_page renders for its "next" parameter.
LoginFormAction(next) ==
    LET next_url == IF next = {} \/ next = {""} THEN "/" ELSE CHOOSE n \in next : TRUE
    IN "/idp/login?next=" \o Quote(next_url, {"/"})

\* The user agent opens the login page: directly, by a link it was handed, or
\* by following the redirect that oauth_authorize answered.
LoginPage ==
    /\ \E url \in {"/idp/login", CraftedLoginUrl} \cup
                  (IF resp.op = "authorize" /\ StartsWith(resp.location, "/idp/login")
                   THEN {resp.location} ELSE {}) :
          /\ req' = Request(url, "", "", "")
          /\ form' = LoginFormAction(QueryParam(url, "next"))
          /\ resp' = Reply("login_page", 200, "")
    /\ OtherCall
    /\ UNCHANGED <<now, ticks, users, clients, sessions, auth_codes, nUuid, jar,
                   tok, dbLock, codeLog, issued>>

\* ------------------------------------------------------------------------
\* POST /idp/login
\* ------------------------------------------------------------------------
\* A check that forgets the comparison.
AnyPassword(row, password) == TRUE

PasswordOk(row, password) == row.password_hash = hash_password(password)

\* What FastAPI sends for an endpoint that set a cookie on its injected
\* Response parameter: the headers of that parameter are merged only into a
\* response FastAPI builds from a returned value; a Response object that the
\* endpoint returns is sent as it is.
ServeResult(returned, isResponseObject, cookie) ==
    IF isResponseObject THEN returned ELSE [returned EXCEPT !.set_cookie = cookie]

idp_login(username, password, next) ==
    LET row == {u \in users : u.username = username}
    IN IF row = {} \/ \E u \in row : ~PasswordOk(u, password)
       THEN /\ resp' = Reply("login", 401, "Invalid credentials")
            /\ UNCHANGED <<sessions, nUuid, jar>>
       ELSE LET sid == uuid4_hex(nUuid + 1)
                exp == now + SESSION_TTL
                uid == (CHOOSE u \in row : TRUE).id
                redirect == next # {} /\ next # {""}
                returned == IF redirect
                            THEN RedirectResponse("login", CHOOSE n \in next : TRUE, 302)
                            ELSE Reply("login", 200, "ok")
                sent == ServeResult(returned, redirect, sid)
            IN /\ nUuid < MaxUuid
               /\ dbLock = 0
               /\ nUuid' = nUuid + 1
               /\ sessions' = sessions \cup
                     {[session_id |-> sid, user_id |-> uid, expires_at |-> exp]}
               /\ resp' = sent
               /\ jar' = jar \cup ({sent.set_cookie} \ {""})

\* A user agent posts credentials: to the bare endpoint, or by submitting
\* the login form it displays.
IdpLoginWith(credentials) ==
    /\ \E url \in {"/idp/login"} \cup ({form} \ {""}) :
          LET next == QueryParam(url, "next")
          IN \E cr \in credentials :
                /\ req' = Request(url, "", cr[1], cr[2])
                /\ idp_login(cr[1], cr[2], next)
    /\ form' = ""
    /\ OtherCall
    /\ UNCHANGED <<now, ticks, users, clients, auth_codes, tok, dbLock, codeLog,
                   issued>>

IdpLogin == IdpLoginWith(Credentials)

\* ------------------------------------------------------------------------
\* Session resolution
\* ------------------------------------------------------------------------
\* A check that forgets the expiry.
NeverExpires(s, t) == TRUE

SessionLive(s, t) == ~(s.expires_at < t)

\* The user rows (none or one) that the session cookie resolves to at time t.
get_current_user(sid, t) ==
    IF sid = "" THEN {}
    ELSE LET s == {x \in sessions : x.session_id = sid}
         IN IF s = {} \/ \E x \in s : ~SessionLive(x, t)
            THEN {}
            ELSE {u \in users : \E x \in s : u.id = x.user_id}

\* A resolution that purges the session it finds expired.
PurgeExpired(rows, sid, t) ==
    {x \in rows : ~(x.session_id = sid /\ x.expires_at < t)}

\* The sessions table after get_current_user ran for cookie sid at time t:
\* its two statements are selects, and it never commits.
SessionsAfterResolve(rows, sid, t) == rows

\* ------------------------------------------------------------------------
\* GET /oauth/authorize
\* ------------------------------------------------------------------------
\* The redirect_uri check of oauth_authorize against the registered value.
RedirectUriAccepted(supplied, registered) == StartsWith(supplied, registered)

\* A redirect that forgets to quote the target.
LoginRedirectUnquoted(current_url) == "/idp/login?next=" \o current_url

\* Where an unauthenticated caller is sent: the login page, with the
\* requested URL as the post-login target.
LoginRedirect(current_url) == "/idp/login?next=" \o Quote(current_url, {"/"})

\* A check that lets every response_type pass.
AnyResponseType(response_type) == TRUE

\* "if response_type != "code": raise HTTPException(400, ...)"
ResponseTypeSupported(response_type) == response_type = "code"

\* A detail that tells the whole clients row.
ClientMismatchDetailVerbose(c) ==
    "invalid client or redirect_uri mismatch. Expected " \o
    (IF c = {} THEN "unknown"
     ELSE (CHOOSE x \in c : TRUE).redirect_uri \o " " \o
          (CHOOSE x \in c : TRUE).client_secret)

\* The detail of the 400 for the selected clients rows c (none or one).
ClientMismatchDetail(c) ==
    "invalid client or redirect_uri mismatch. Expected start with " \o
    (IF c = {} THEN "unknown" ELSE (CHOOSE x \in c : TRUE).redirect_uri)

\* A row that is bound to no client and no redirect_uri.
AuthCodeRowUnbound(code, user, q, t) ==
    [code |-> code, user_id |-> user.id, client_id |-> "", redirect_uri |-> "",
     expires_at |-> t + CODE_TTL]

\* The row inserted into auth_codes for the user row of the session and the
\* parameters q of the request, at time t.
AuthCodeRow(code, user, q, t) ==
    [code |-> code, user_id |-> user.id, client_id |-> q.client_id,
     redirect_uri |-> q.redirect_uri, expires_at |-> t + CODE_TTL]

\* The handler, for the query parameters q that the framework parsed from
\* the request URL current_url, and the session_id cookie of the request.
oauth_authorize(q, current_url, cookie) ==
    LET user      == get_current_user(cookie, now)
        c         == {x \in clients : x.client_id = q.client_id}
        unchanged == UNCHANGED <<auth_codes, nUuid, codeLog>>
    IN /\ sessions' = SessionsAfterResolve(sessions, cookie, now)
       /\ IF user = {}
          THEN resp' = RedirectResponse("authorize", LoginRedirect(current_url), 307)
               /\ unchanged
          ELSE IF ~ResponseTypeSupported(q.response_type)
          THEN resp' = Reply("authorize", 400, "unsupported response_type") /\ unchanged
          ELSE IF c = {} \/ \E x \in c : ~RedirectUriAccepted(q.redirect_uri, x.redirect_uri)
          THEN resp' = Reply("authorize", 400, ClientMismatchDetail(c))
               /\ unchanged
          ELSE LET code == uuid4_hex(nUuid + 1)
                   row  == AuthCodeRow(code, CHOOSE u \in user : TRUE, q, now)
               IN /\ nUuid < MaxUuid
                  /\ dbLock = 0
                  /\ nUuid' = nUuid + 1
                  /\ auth_codes' = auth_codes \cup {row}
                  /\ codeLog' = codeLog \cup
                        {[row |-> row, session_id |-> cookie, issued_at |-> now]}
                  /\ resp' = RedirectResponse("authorize", CodeRedirect(q, code), 307)

\* The query parameters of an authorization request as the framework binds
\* them: response_type defaults to "code", state to None (here "").
ParseAuthorize(url) ==
    LET one(v, default) == IF v = {} THEN default ELSE CHOOSE x \in v : TRUE
    IN AuthReq(one(QueryParam(url, "client_id"), ""),
               one(QueryParam(url, "redirect_uri"), ""),
               one(QueryParam(url, "response_type"), "code"),
               one(QueryParam(url, "state"), ""))

\* A client application sends a user agent to the authorization endpoint.
OAuthAuthorizeWith(requests, cookies) ==
    /\ \E r \in requests, cookie \in cookies :
          /\ req' = Request(UrlOf[r], cookie, "", "")
          /\ oauth_authorize(r, UrlOf[r], cookie)
    /\ form' = ""
    /\ OtherCall
    /\ UNCHANGED <<now, ticks, users, clients, jar, tok, dbLock, issued>>

\* The requests that name the default client.
DefaultClientRequests == {r \in AuthorizeRequests : r.client_id # "app1"}

OAuthAuthorize == OAuthAuthorizeWith(DefaultClientRequests, Cookies)

\* The absolute URL a user agent requests for a Location of this origin.
Resolve(location) == IF StartsWith(location, "/") THEN ISSUER \o location ELSE location

\* The user agent follows the 302 of a successful login back to the
\* authorization endpoint, with the cookie the response set, or else with
\* whatever cookie it had.
FollowNext ==
    /\ resp.op = "login" /\ resp.status = 302
    /\ LET url == Resolve(resp.location)
           q   == ParseAuthorize(url)
       IN /\ StartsWith(url, ISSUER \o "/oauth/authorize?")
          /\ q.client_id # "" /\ q.redirect_uri # ""
          /\ \E cookie \in (IF resp.set_cookie # "" THEN {resp.set_cookie}
                            ELSE Cookies) :
                /\ req' = Request(url, cookie, "", "")
                /\ oauth_authorize(q, url, cookie)
    /\ form' = ""
    /\ OtherCall
    /\ UNCHANGED <<now, ticks, users, clients, jar, tok, dbLock, issued>>

\* ------------------------------------------------------------------------
\* POST /oauth/token, statement by statement
\* ------------------------------------------------------------------------
\* A check that forgets the secret.
AnySecret(c, client_secret) == TRUE

ClientAuthentic(c, client_secret) == c.client_secret = client_secret

\* A check that forgets the expiry.
CodeUsableForever(a, client_id, t) ==
    a # {} /\ \A x \in a : x.client_id = client_id

\* The check of the selected auth_codes rows a (none or one) at time t.
CodeUsable(a, client_id, t) ==
    a # {} /\ \A x \in a : x.client_id = client_id /\ ~(x.expires_at < t)

\* A delete that removes nothing.
KeepCode(rows, code) == rows

\* A delete without its where clause.
DeleteEveryCode(rows, code) == {}

\* "delete from auth_codes where code=?"
DeleteCode(rows, code) == {x \in rows : x.code # code}

\* Claims that leave out the audience and the lifetime.
AccessClaimsBare(u, client_id, t) ==
    [iss |-> ISSUER, sub |-> ToString(u.id), email |-> u.email, name |-> u.name,
     aud |-> "", iat |-> t, exp |-> t]

\* The payload of the access token for user row u and the calling client.
AccessClaims(u, client_id, t) ==
    [iss |-> ISSUER, sub |-> ToString(u.id), email |-> u.email, name |-> u.name,
     aud |-> client_id, iat |-> t, exp |-> t + TOKEN_TTL]

\* {"access_token": ..., "token_type": "Bearer", "expires_in": TOKEN_TTL}
TokenResponse(access_token) ==
    [Reply("token", 200, "") EXCEPT !.token = {access_token},
                                    !.token_type = "Bearer",
                                    !.expires_in = TOKEN_TTL]

\* The call returns: its request and its response stay on record.
Finish(call, r) == [call EXCEPT !.pc = "done", !.resp = r, !.a = {}, !.readAt = 0]

\* A check that lets every grant_type pass.
AnyGrant(grant_type) == TRUE

\* "if grant_type != "authorization_code": raise HTTPException(400, ...)"
GrantSupported(grant_type) == grant_type = "authorization_code"

\* grant_type check and the select on clients.
TokenBegin(w, requests) ==
    /\ tok[w].pc \in {"idle", "done"}
    /\ \E code \in {UnknownCode} \cup {k.row.code : k \in codeLog},
          q \in requests :
          LET call == [IdleCall EXCEPT !.code = code, !.client_id = q.client_id,
                          !.client_secret = q.client_secret,
                          !.redirect_uri = q.redirect_uri,
                          !.grant_type = q.grant_type]
              c == {x \in clients : x.client_id = q.client_id}
          IN tok' = [tok EXCEPT ![w] =
                IF ~GrantSupported(q.grant_type)
                THEN Finish(call, Reply("token", 400, "unsupported grant_type"))
                ELSE IF c = {} \/ \E x \in c : ~ClientAuthentic(x, q.client_secret)
                THEN Finish(call, Reply("token", 401, "invalid client"))
                ELSE [call EXCEPT !.pc = "client_ok"]]
    /\ OtherCall
    /\ UNCHANGED <<now, ticks, users, clients, sessions, auth_codes, nUuid, jar,
                   req, resp, form, dbLock, codeLog, issued>>

\* The select on auth_codes and the check of the row.
TokenSelectCode(w) ==
    /\ tok[w].pc = "client_ok"
    /\ LET a == {x \in auth_codes : x.code = tok[w].code}
       IN tok' = [tok EXCEPT ![w] =
             IF ~CodeUsable(a, tok[w].client_id, now)
             THEN Finish(tok[w], Reply("token", 400, "invalid code"))
             ELSE [tok[w] EXCEPT !.pc = "code_ok", !.a = a, !.readAt = now]]
    /\ OtherCall
    /\ UNCHANGED <<now, ticks, users, clients, sessions, auth_codes, nUuid, jar,
                   req, resp, form, dbLock, codeLog, issued>>

\* The select on users and the delete statement, which opens the write
\* transaction of this connection.
TokenDelete(w) ==
    /\ tok[w].pc = "code_ok"
    /\ dbLock = 0
    /\ dbLock' = w
    /\ tok' = [tok EXCEPT ![w].pc = "deleting"]
    /\ OtherCall
    /\ UNCHANGED <<now, ticks, users, clients, sessions, auth_codes, nUuid, jar,
                   req, resp, form, codeLog, issued>>

\* commit, and the token that is signed and returned.
TokenCommit(w) ==
    /\ tok[w].pc = "deleting"
    /\ dbLock' = 0
    /\ auth_codes' = DeleteCode(auth_codes, tok[w].code)
    /\ LET a == CHOOSE x \in tok[w].a : TRUE
           u == {x \in users : x.id = a.user_id}
       IN IF u = {}
          THEN /\ tok' = [tok EXCEPT ![w] =
                     Finish(tok[w], Reply("token", 500, "Internal Server Error"))]
               /\ UNCHANGED issued
          ELSE LET row == CHOOSE x \in u : TRUE
                   payload == AccessClaims(row, tok[w].client_id, now)
                   r == TokenResponse(sign_jwt(Dict(payload)))
               IN /\ tok' = [tok EXCEPT ![w] = Finish(tok[w], r)]
                  /\ issued' = Append(issued,
                        [code |-> tok[w].code, worker |-> w, payload |-> payload])
    /\ OtherCall
    /\ UNCHANGED <<now, ticks, users, clients, sessions, nUuid, jar, req, resp,
                   form, codeLog>>

\* ------------------------------------------------------------------------
\* Inputs of the token signer and verifier
\* ------------------------------------------------------------------------
\* The dict without members, {}.
EmptyDict == Dict([k \in {} |-> ""])

\* Claims maps handed to sign_jwt at time t: the claims of an access token,
\* maps whose exp is a second ahead, the current second, 0, or absent, and
\* the empty map.
ClaimsAt(t) ==
    { Dict(AccessClaims(u, "frontend-app", t)) :
        u \in {x \in users : x.username = "admin"} }
    \cup { Dict([sub |-> "1", exp |-> t + 1]),
           Dict([sub |-> "1", exp |-> t]),
           Dict([sub |-> "1", exp |-> 0]),
           Dict([sub |-> "1"]),
           EmptyDict }

\* A token with the payload segment p, signed as sign_jwt signs.
SignedSegment(p) ==
    LET h == b64url(json_dumps(JwtHeader))
    IN <<h, p, b64url(hmac_sha256(SECRET, h, p))>>

\* Other claims than c: another subject, a later exp.
OtherClaims(c) ==
    (IF "sub" \in DOMAIN c.members
     THEN { Dict([c.members EXCEPT !.sub = "0"]) }
     ELSE { Dict([sub |-> "0"]) })
    \cup (IF "exp" \in DOMAIN c.members
          THEN { Dict([c.members EXCEPT !.exp = @ + TOKEN_TTL]) }
          ELSE {})

\* What can be made of the signed token <<h, p, s>> of claims without the key: the
\* payload replaced under the old signature, the same with a signature under
\* a guessed key, the signature dropped or emptied.
Tampered(claims, token) ==
    LET h == token[1]
        s == token[3]
    IN UNION { { <<h, b64url(json_dumps(c)), s>>,
                 <<h, b64url(json_dumps(c)),
                   b64url(hmac_sha256("guess", h, b64url(json_dumps(c))))>> } :
               c \in OtherClaims(claims) }
       \cup { <<h, token[2]>>, <<h, token[2], RawSegment("")>> }

\* Strings that are no token of sign_jwt, though signed with SECRET where
\* they have three segments: too few and too many segments, a payload that
\* is no base64, no JSON, no object, and objects whose exp is no integer.
Malformed ==
    { <<RawSegment("abc")>>,
      <<RawSegment("a"), RawSegment("b"), RawSegment("c"), RawSegment("d")>>,
      SignedSegment(RawSegment("%")),
      SignedSegment(b64url([bytes |-> "not json"])),
      SignedSegment(b64url([json |-> [type |-> "array", value |-> Dict([sub |-> "1"])]])),
      SignedSegment(b64url(json_dumps(
          DictOddExp([sub |-> "1"], [t |-> "str", v |-> "soon"])))),
      SignedSegment(b64url(json_dumps(
          DictOddExp([sub |-> "1"], [t |-> "str", v |-> "7"])))),
      SignedSegment(b64url(json_dumps(
          DictOddExp([sub |-> "1"], [t |-> "null", v |-> ""])))) }

\* The tokens a caller can present.
Presentable ==
    {j.token : j \in jwt} \cup UNION {Tampered(j.claims, j.token) : j \in jwt} \cup Malformed

\* The Authorization header: absent, or a scheme and what follows the space.
NoHeader == [scheme |-> "", token |-> <<>>]

Bearer(token) == [scheme |-> "Bearer", token |-> token]

BasicHeader == [scheme |-> "Basic", token |-> <<RawSegment("YWRtaW46cGFzc3dvcmQ")>>]

\* ------------------------------------------------------------------------
\* sign_jwt and verify_jwt, called
\* ------------------------------------------------------------------------
SignJwt ==
    /\ \E claims \in ClaimsAt(now) :
          jwt' = {[claims |-> claims, token |-> sign_jwt(claims), signed_at |-> now]}
    /\ UNCHANGED <<now, ticks, users, clients, sessions, auth_codes, nUuid, jar,
                   req, resp, form, tok, dbLock, codeLog, issued, check, info,
                   gate, svcVars>>

VerifyJwt ==
    /\ \E token \in Presentable :
          check' = {[token |-> token, at |-> now, result |-> verify_jwt(token, now)]}
    /\ info' = {} /\ gate' = {}
    /\ UNCHANGED <<now, ticks, users, clients, sessions, auth_codes, nUuid, jar,
                   req, resp, form, tok, dbLock, codeLog, issued, jwt,
                   svcVars>>

\* ------------------------------------------------------------------------
\* GET /oauth/userinfo
\* ------------------------------------------------------------------------
\* payload.get(key): the value or none.
Get(payload, key) ==
    IF key \in DOMAIN payload.members THEN {payload.members[key]} ELSE {}

\* "not payload": None, or a dict without members.
Falsy(payload) ==
    IF payload = None THEN TRUE
    ELSE payload.odd_exp = {} /\ DOMAIN payload.members = {}

\* The response to the Authorization header at time t.  An exception that
\* leaves a handler is answered 500 by the framework.
oauth_userinfo(authorization, t) ==
    IF authorization.scheme # "Bearer"
    THEN [status |-> 401, detail |-> "missing token", body |-> {}]
    ELSE LET payload == verify_jwt(authorization.token, t)
         IN IF "exception" \in DOMAIN payload
            THEN [status |-> 500, detail |-> "Internal Server Error", body |-> {}]
            ELSE IF Falsy(payload)
            THEN [status |-> 401, detail |-> "invalid token", body |-> {}]
            ELSE [status |-> 200, detail |-> "",
                  body |-> {[sub |-> Get(payload, "sub"),
                             email |-> Get(payload, "email"),
                             name |-> Get(payload, "name")]}]

OAuthUserinfoWith(tokens) ==
    /\ \E authorization \in {NoHeader, BasicHeader}
                             \cup {Bearer(t) : t \in tokens} :
          info' = {[authorization |-> authorization, at |-> now,
                    response |-> oauth_userinfo(authorization, now)]}
    /\ check' = {} /\ gate' = {}
    /\ UNCHANGED <<now, ticks, users, clients, sessions, auth_codes, nUuid, jar,
                   req, resp, form, tok, dbLock, codeLog, issued, jwt,
                   svcVars>>

OAuthUserinfo == OAuthUserinfoWith(Presentable)

\* ------------------------------------------------------------------------
\* Requests that reach no handler
\* ------------------------------------------------------------------------
\* Token requests that lack a required form field.
IncompleteTokenRequests ==
    { TokenReq("frontend-app", "", "http://localhost:3000", "authorization_code"),
      TokenReq("frontend-app", "frontend-secret", "http://localhost:3000", ""),
      TokenReq("", "", "", "") }

\* Authorization requests that lack client_id or redirect_uri.
IncompleteAuthorizeUrls ==
    { ISSUER \o "/oauth/authorize",
      ISSUER \o "/oauth/authorize?client_id=frontend-app&response_type=code" }

\* The parameters declared without a default, Form(...) and plain str, are
\* required: for a request that lacks one the framework answers 422 and
\* does not call the handler.
RequestValidation(w) ==
    /\ \/ /\ \E cr \in {<<"", "password">>, <<"admin", "">>} :
                req' = Request("/idp/login", "", cr[1], cr[2])
          /\ resp' = Reply("login", 422, "Field required")
          /\ UNCHANGED tok
       \/ /\ \E url \in IncompleteAuthorizeUrls, cookie \in {""} \cup jar :
                req' = Request(url, cookie, "", "")
          /\ resp' = Reply("authorize", 422, "Field required")
          /\ UNCHANGED tok
       \/ /\ tok[w].pc \in {"idle", "done"}
          /\ \E q \in IncompleteTokenRequests, code \in {"", UnknownCode} :
                tok' = [tok EXCEPT ![w] =
                   Finish([IdleCall EXCEPT !.code = code,
                              !.client_id = q.client_id,
                              !.client_secret = q.client_secret,
                              !.redirect_uri = q.redirect_uri,
                              !.grant_type = q.grant_type],
                          Reply("token", 422, "Field required"))]
          /\ UNCHANGED <<req, resp>>
    /\ OtherCall
    /\ UNCHANGED <<now, ticks, users, clients, sessions, auth_codes, nUuid, jar,
                   form, dbLock, codeLog, issued>>

\* The paths of the operations that the router has no route for.
UnroutedPaths == {"/idp/logout", "/idp/register_user", "/idp/register_client"}

\* The router holds the five routes of this module and no other: a request
\* to any other path is answered 404 and no handler runs.  A logout is sent
\* with the cookie of the session to end, a registration with an
\* X-Admin-Token header and the credentials to register.
NotFound ==
    /\ \E path \in UnroutedPaths :
          /\ IF path = "/idp/logout"
             THEN \E cookie \in {""} \cup jar : req' = Request(path, cookie, "", "")
             ELSE \E t \in {"", "guess"} :
                     req' = [Request(path, "", "carol", "pw") EXCEPT
                                !.x_admin_token = t]
          /\ resp' = Reply(SubSeq(path, 6, Len(path)), 404, "Not Found")
    /\ OtherCall
    /\ UNCHANGED <<now, ticks, users, clients, sessions, auth_codes, nUuid, jar,
                   form, tok, dbLock, codeLog, issued>>

\* ------------------------------------------------------------------------
\* The gatekeeper of the /api router
\* ------------------------------------------------------------------------
ApiRoutes == {"/api/config", "/api/translate"}

\* X-Auth-Request-Email: absent (""), or what the sender wrote.
IdentityHeaders == {"", "admin@example.com", "mallory@evil.example"}

\* A check that lets everybody in.
AnyIdentity(user_email) == TRUE

\* "if not user_email: raise HTTPException(status_code=401, ...)"
IdentityPresent(user_email) == user_email # ""

\* The dependency of every /api route: what the request is answered when the
\* dependency raises, else the identity it returns and the handler running.
verify_security_pass(user_email, authorization) ==
    IF ~IdentityPresent(user_email)
    THEN [status |-> 401, detail |-> "Access Denied", identity |-> "",
          handled |-> FALSE]
    ELSE [status |-> 200, detail |-> "", identity |-> user_email,
          handled |-> TRUE]

ApiRequest ==
    /\ \E route \in ApiRoutes, user_email \in IdentityHeaders,
          authorization \in {NoHeader, Bearer(<<RawSegment("abc")>>)}
                             \cup {Bearer(j.token) : j \in jwt} :
          gate' = {[route |-> route, user_email |-> user_email,
                    authorization |-> authorization, at |-> now,
                    response |-> verify_security_pass(user_email, authorization)]}
    /\ check' = {} /\ info' = {}
    /\ UNCHANGED <<now, ticks, users, clients, sessions, auth_codes, nUuid, jar,
                   req, resp, form, tok, dbLock, codeLog, issued, jwt,
                   svcVars>>

\* ------------------------------------------------------------------------
\* Specifications
\* ------------------------------------------------------------------------
\* The user agent's side of the flow: login page, login, authorization
\* endpoint and the redirects between them.
Next ==
    \/ Tick
    \/ LoginPage
    \/ IdpLogin
    \/ OAuthAuthorize
    \/ FollowNext

Spec == Init /\ [][Next]_vars

\* Requests of the registered clients, with registered redirect_uris.
GoodAuthorizeRequests ==
    { AuthReq("frontend-app", "http://localhost:3000", "code", "xyz"),
      AuthReq("app1", "https://app/cb", "code", "xyz") }

\* The whole flow with one worker serving the token endpoint, so that its
\* calls run one after the other: logins, authorization requests of the
\* registered clients by user agents that logged in, and every token request.
TokenNext ==
    \/ Tick
    \/ IdpLoginWith(GoodCredentials)
    \/ OAuthAuthorizeWith(GoodAuthorizeRequests, jar)
    \/ TokenBegin(1, TokenRequests)
    \/ TokenSelectCode(1)
    \/ TokenDelete(1)
    \/ TokenCommit(1)

SpecToken == Init /\ [][TokenNext]_vars

ConcAuthorizeRequests ==
    { AuthReq("frontend-app", "http://localhost:3000", "code", "xyz") }

ConcTokenRequests ==
    { TokenReq("frontend-app", "frontend-secret", "http://localhost:3000",
               "authorization_code") }

\* The token endpoint served by all workers of the pool at once, for the
\* requests of a registered client and user.
ConcNext ==
    \/ IdpLoginWith({<<"admin", "password">>})
    \/ OAuthAuthorizeWith(ConcAuthorizeRequests, jar)
    \/ \E w \in Workers : TokenBegin(w, ConcTokenRequests)
    \/ \E w \in Workers : TokenSelectCode(w)
    \/ \E w \in Workers : TokenDelete(w)
    \/ \E w \in Workers : TokenCommit(w)

SpecConc == Init /\ [][ConcNext]_vars

\* Tables that a database file can hold when the process starts: users and
\* clients registered earlier, among them an admin whose password was
\* changed and a frontend-app whose secret and redirect_uri were replaced.
\* username and client_id are unique, id is the primary key.
UserPool ==
    { [id |-> i, username |-> p[1], password_hash |-> hash_password(p[2]),
       email |-> p[1] \o "@example.com", name |-> p[1]] :
      i \in 1..2, p \in {<<"bob", "hunter2">>, <<"carol", "pw">>,
                          <<"admin", "changed">>} }

ClientPool ==
    { [id |-> i, client_id |-> p[1], client_secret |-> p[2], redirect_uri |-> p[3]] :
      i \in 1..2, p \in {<<"app1", "s1", "https://app/cb">>,
                          <<"app2", "s2", "https://app2/cb">>,
                          <<"frontend-app", "rotated", "https://prod.example">>} }

UsersTables ==
    {t \in SUBSET UserPool :
        \A a, b \in t : (a.id = b.id \/ a.username = b.username) => a = b}

ClientsTables ==
    {t \in SUBSET ClientPool :
        \A a, b \in t : (a.id = b.id \/ a.client_id = b.client_id) => a = b}

InitSeed ==
    /\ now = 0
    /\ ticks = 0
    /\ users \in UsersTables
    /\ clients \in ClientsTables
    /\ sessions = {}
    /\ auth_codes = {}
    /\ nUuid = 0
    /\ jar = {}
    /\ req = Request("", "", "", "")
    /\ resp = NoResponse
    /\ form = ""
    /\ tok = [w \in Workers |-> IdleCall]
    /\ dbLock = 0
    /\ codeLog = {}
    /\ issued = <<>>
    /\ jwt = {}
    /\ check = {}
    /\ info = {}
    /\ gate = {}
    /\ ServicesStarted

\* seed_data() runs, at import of the module or called again.
SeedData ==
    /\ users' = seed_data([users |-> users, clients |-> clients]).users
    /\ clients' = seed_data([users |-> users, clients |-> clients]).clients
    /\ UNCHANGED <<apiVars, svcVars>>
    /\ UNCHANGED <<now, ticks, sessions, auth_codes, nUuid, jar, req, resp, form,
                   tok, dbLock, codeLog, issued>>

SpecSeed == InitSeed /\ [][SeedData]_vars

\* The database file as an earlier run of the process left it: bob logged in
\* and was issued a code for app1 the moment before the restart, and his
\* user agent still holds the cookie.
PriorSession == [session_id |-> "5e55", user_id |-> 1, expires_at |-> SESSION_TTL]

PriorCode ==
    [code |-> "c0de", user_id |-> 1, client_id |-> "app1",
     redirect_uri |-> "https://app/cb", expires_at |-> CODE_TTL]

InitRestarted ==
    /\ now = 0
    /\ ticks = 0
    /\ users = seed_data(PriorDb).users
    /\ clients = seed_data(PriorDb).clients
    /\ sessions = {PriorSession}
    /\ auth_codes = {PriorCode}
    /\ nUuid = 0
    /\ jar = {PriorSession.session_id}
    /\ req = Request("", "", "", "")
    /\ resp = NoResponse
    /\ form = ""
    /\ tok = [w \in Workers |-> IdleCall]
    /\ dbLock = 0
    /\ codeLog = {[row |-> PriorCode, session_id |-> PriorSession.session_id,
                   issued_at |-> 0]}
    /\ issued = <<>>
    /\ jwt = {}
    /\ check = {}
    /\ info = {}
    /\ gate = {}
    /\ ServicesStarted

\* The calls of the two registered clients, each with its own secret.
RightfulTokenRequests ==
    { TokenReq("frontend-app", "frontend-secret", "http://localhost:3000",
               "authorization_code"),
      TokenReq("app1", "s1", "https://app/cb", "authorization_code") }

\* Codes exchanged while other codes and sessions are outstanding: the
\* flow of SpecToken, started from the restarted process.
ExchangeNext ==
    \/ IdpLoginWith(GoodCredentials)
    \/ OAuthAuthorizeWith(GoodAuthorizeRequests, jar)
    \/ TokenBegin(1, RightfulTokenRequests)
    \/ TokenSelectCode(1)
    \/ TokenDelete(1)
    \/ TokenCommit(1)

SpecExchange == InitRestarted /\ [][ExchangeNext]_vars

\* The requests of the whole surface of the identity provider, served at
\* one instant: a right and a wrong login, authorization requests that
\* succeed and that fail each check, token requests likewise, userinfo with
\* the tokens returned and with unreadable ones, requests without a required
\* parameter, and requests to paths without a route.
IdpCredentials == { <<"admin", "password">>, <<"admin", "hunter2">> }

IdpAuthorizeRequests ==
    { AuthReq("frontend-app", "http://localhost:3000", "code", "xyz"),
      AuthReq("frontend-app", "https://app/cb", "code", "xyz"),
      AuthReq("ghost", "http://localhost:3000", "code", "xyz"),
      AuthReq("frontend-app", "http://localhost:3000", "token", "xyz") }

IdpTokenRequests ==
    { TokenReq("frontend-app", "frontend-secret", "http://localhost:3000",
               "authorization_code"),
      TokenReq("frontend-app", "s1", "http://localhost:3000", "authorization_code"),
      TokenReq("ghost", "frontend-secret", "http://localhost:3000",
               "authorization_code"),
      TokenReq("frontend-app", "frontend-secret", "http://localhost:3000",
               "password") }

IdpTokens ==
    UNION {tok[w].resp.token : w \in Workers}
    \cup { <<RawSegment("abc")>>, SignedSegment(RawSegment("%")) }

IdpNext ==
    \/ IdpLoginWith(IdpCredentials)
    \/ OAuthAuthorizeWith(IdpAuthorizeRequests, {""} \cup jar)
    \/ TokenBegin(1, IdpTokenRequests)
    \/ TokenSelectCode(1)
    \/ TokenDelete(1)
    \/ TokenCommit(1)
    \/ OAuthUserinfoWith(IdpTokens)
    \/ RequestValidation(1)
    \/ NotFound

SpecIdp == Init /\ [][IdpNext]_vars

\* Bearer tokens: signed, verified, presented to the userinfo endpoint and to
\* the /api router, while the clock runs.
ApiNext ==
    \/ Tick
    \/ SignJwt
    \/ VerifyJwt
    \/ OAuthUserinfo
    \/ ApiRequest

SpecApi == Init /\ [][ApiNext]_vars

\* Coroutines that call get_client() and close() on the one manager.
HttpNext ==
    \E t \in Coroutines :
        \/ GetClientCall(t)
        \/ GetClientCheck(t)
        \/ GetClientLocked(t)
        \/ CloseCall(t)
        \/ CloseCheck(t)
        \/ CloseLocked(t)
        \/ AcloseDone(t)

SpecHttp == Init /\ [][HttpNext]_vars

\* One cache, read and written as time passes.
CacheNext ==
    \/ CacheGet
    \/ CacheSet
    \/ Elapse

SpecCache == Init /\ [][CacheNext]_vars

\* Requests to /translate_batch, one at a time.
BatchNext ==
    \/ TranslateBatch
    \/ ItemEnter
    \/ ItemReturn
    \/ GatherDone

SpecBatch == Init /\ [][BatchNext]_vars

\* Requests to /upload-pdf.
SpecUpload == Init /\ [][UploadPdf]_vars

\* ------------------------------------------------------------------------
\* Properties
\* ------------------------------------------------------------------------
TokenReturned(w) == tok[w].pc = "done" /\ tok[w].resp.token # {}

Exchanged(code) == \E i \in DOMAIN issued : issued[i].code = code

\* C1: calls of oauth_token that run one after the other return at most one
\* access token per code; once a code is exchanged its row is gone, and a
\* later call with that code, by a client that passes the client check, is
\* answered 400 "invalid code".
C1_ExchangedOnce ==
    [][/\ \A i, j \in DOMAIN issued' : issued'[i].code = issued'[j].code => i = j
       /\ \A i \in DOMAIN issued' : \A x \in auth_codes' : x.code # issued'[i].code
       /\ \A w \in Workers :
             (tok[w].pc = "client_ok" /\ tok'[w].pc # "client_ok"
                /\ Exchanged(tok[w].code))
             => /\ tok'[w].pc = "done"
                /\ tok'[w].resp.status = 400
                /\ tok'[w].resp.detail = "invalid code"
                /\ tok'[w].resp.token = {}]_vars

\* A second call with an exchanged code, with the client's own credentials,
\* was answered 400.
C1_SecondExchangeRefused ==
    /\ tok[1].pc = "done" /\ tok[1].resp.status = 400
    /\ \E i \in DOMAIN issued :
          /\ issued[i].code = tok[1].code
          /\ issued[i].payload.aud = tok[1].client_id

\* C2: two oauth_token calls for the same code that run concurrently, each on
\* its own connection, never both return an access token.
C2_NoDoubleExchange ==
    \A i, j \in DOMAIN issued : issued[i].code = issued[j].code => i = j

\* C3: oauth_token returns no token when its redirect_uri differs from the
\* redirect_uri stored with the code.
C3_RedirectUriBound ==
    \A w \in Workers :
        TokenReturned(w) =>
            \E k \in codeLog : /\ k.row.code = tok[w].code
                               /\ k.row.redirect_uri = tok[w].redirect_uri

\* C4: oauth_authorize inserts a code only for a redirect_uri equal to the
\* one registered for the client.
C4_ExactRedirectUri ==
    \A k \in codeLog :
        \E c \in clients : /\ c.client_id = k.row.client_id
                           /\ c.redirect_uri = k.row.redirect_uri

\* C5: the 302 that answers a successful login with a next target sets the
\* session_id cookie to the session just inserted, which resolves to a user.
C5_LoginRedirectSetsCookie ==
    (resp.op = "login" /\ resp.status = 302)
    => /\ resp.set_cookie = uuid4_hex(nUuid)
       /\ \E s \in sessions : s.session_id = resp.set_cookie

\* C6: a login with a registered user's name and password inserts one
\* session of that user, which get_current_user resolves to that user; any
\* other login is answered 401 and leaves the sessions table as it was.
C6_Login ==
    [][(resp'.op = "login" /\ <<req', resp', sessions'>> # <<req, resp, sessions>>)
       => IF <<req'.username, req'.password>> \in GoodCredentials
          THEN /\ resp'.status \in {200, 302}
               /\ \E s \in sessions' \ sessions, u \in users :
                     /\ sessions' = sessions \cup {s}
                     /\ u.username = req'.username
                     /\ s.user_id = u.id
                     /\ get_current_user(s.session_id, now)' = {u}
          ELSE /\ resp'.status = 401
               /\ sessions' = sessions]_vars

\* A registered user logged in and holds a session.
C6_LoggedIn ==
    /\ resp.op = "login" /\ resp.status = 200
    /\ <<req.username, req.password>> \in GoodCredentials
    /\ \E s \in sessions : s.session_id = resp.set_cookie

\* C7: every access token (sub U, aud C) follows a code issued to (U, C), and
\* every code follows a login of U whose session had not expired when the
\* code was issued.
C7_FlowOrder ==
    /\ \A i \in DOMAIN issued :
          \E k \in codeLog :
             /\ k.row.code = issued[i].code
             /\ issued[i].payload.sub = ToString(k.row.user_id)
             /\ issued[i].payload.aud = k.row.client_id
             /\ k.issued_at <= issued[i].payload.iat
    /\ \A k \in codeLog :
          \E s \in sessions :
             /\ s.session_id = k.session_id
             /\ s.user_id = k.row.user_id
             /\ s.expires_at - SESSION_TTL <= k.issued_at
             /\ k.issued_at <= s.expires_at

\* Login, authorize and token, in that order, ended with an access token of
\* the seeded user for the seeded client.
C7_Exchanged ==
    \E i \in DOMAIN issued, u \in users :
        /\ u.username = "admin"
        /\ issued[i].payload.sub = ToString(u.id)
        /\ issued[i].payload.aud = "frontend-app"

\* C8: the select on auth_codes lets a call go on exactly when the code is
\* stored, bound to the calling client and not past its expires_at, and
\* otherwise answers 400 without a token; a token is returned only by a call
\* that went on from there.
C8_CodeChecked ==
    [][\A w \in Workers :
          /\ (tok[w].pc = "client_ok" /\ tok'[w].pc # "client_ok")
             => IF \E x \in auth_codes : /\ x.code = tok[w].code
                                         /\ x.client_id = tok[w].client_id
                                         /\ now <= x.expires_at
                THEN tok'[w].pc = "code_ok"
                ELSE /\ tok'[w].pc = "done"
                     /\ tok'[w].resp.status = 400
                     /\ tok'[w].resp.token = {}
          /\ (tok'[w].pc = "code_ok" /\ tok[w].pc # "code_ok")
             => tok[w].pc = "client_ok"
          /\ (tok'[w].pc = "deleting" /\ tok[w].pc # "deleting")
             => tok[w].pc = "code_ok"
          /\ (tok'[w].resp.token # {} /\ tok'[w] # tok[w])
             => tok[w].pc = "deleting"]_vars

\* A stored code of the calling client, past its expires_at, was refused.
C8_ExpiredRefused ==
    /\ tok[1].pc = "done" /\ tok[1].resp.status = 400
    /\ \E x \in auth_codes : /\ x.code = tok[1].code
                             /\ x.client_id = tok[1].client_id
                             /\ x.expires_at < now

\* C9: a call with grant_type authorization_code goes on to the code lookup
\* exactly when its client_id is registered with its client_secret, and is
\* otherwise answered 401 "invalid client" without a token, whatever its code.
C9_ClientChecked ==
    [][\A w \in Workers :
          (tok[w].pc \in {"idle", "done"} /\ tok'[w] # tok[w]
             /\ tok'[w].grant_type = "authorization_code")
          => IF \E c \in clients : /\ c.client_id = tok'[w].client_id
                                   /\ c.client_secret = tok'[w].client_secret
             THEN tok'[w].pc = "client_ok"
             ELSE /\ tok'[w].pc = "done"
                  /\ tok'[w].resp.status = 401
                  /\ tok'[w].resp.detail = "invalid client"
                  /\ tok'[w].resp.token = {}]_vars

\* A registered client that sent another client's secret, with a code that
\* was issued, was refused.
C9_WrongSecretRefused ==
    /\ tok[1].pc = "done" /\ tok[1].resp.status = 401
    /\ tok[1].client_id = "frontend-app" /\ tok[1].client_secret = "s1"
    /\ \E k \in codeLog : k.row.code = tok[1].code

\* C10: oauth_authorize without a valid session answers a redirect to
\* /idp/login whose next parameter is the requested URL and inserts no code;
\* the form action that login_page renders for that redirect carries the same
\* next, and the login that the form posts redirects to it.
C10_LoginRoundTrip ==
    [][/\ (resp'.op = "authorize"
             /\ <<req', resp', codeLog'>> # <<req, resp, codeLog>>
             /\ get_current_user(req'.cookie, now) = {})
          => /\ resp'.status = 307
             /\ StartsWith(resp'.location, "/idp/login?next=")
             /\ QueryParam(resp'.location, "next") = {req'.url}
             /\ auth_codes' = auth_codes
             /\ codeLog' = codeLog
       /\ (resp'.op = "login_page" /\ resp.op = "authorize"
             /\ req'.url = resp.location)
          => QueryParam(form', "next") = QueryParam(resp.location, "next")
       /\ (resp'.op = "login" /\ resp'.status = 302 /\ form # ""
             /\ req'.url = form)
          => QueryParam(form, "next") = {resp'.location}]_vars

\* The login posted by the form redirected to a requested authorization URL.
C10_BackAtAuthorize ==
    /\ resp.op = "login" /\ resp.status = 302
    /\ \E r \in AuthorizeRequests : resp.location = UrlOf[r]

\* C11: a session whose expires_at the clock has passed stays unresolved by
\* get_current_user from then on, and an oauth_authorize call that presents
\* its id is answered with the redirect to the login page and inserts no code.
C11_ExpiredSession ==
    [][/\ \A s \in sessions :
             s.expires_at < now
             => /\ s \in sessions'
                /\ s.expires_at < now'
                /\ get_current_user(s.session_id, now)' = {}
       /\ (resp'.op = "authorize"
             /\ <<req', resp', codeLog'>> # <<req, resp, codeLog>>
             /\ \E s \in sessions : /\ s.session_id = req'.cookie
                                    /\ s.expires_at < now)
          => /\ resp'.status = 307
             /\ StartsWith(resp'.location, "/idp/login?next=")
             /\ auth_codes' = auth_codes
             /\ codeLog' = codeLog
             /\ nUuid' = nUuid]_vars

\* An authorization request that presented an expired session was sent to the
\* login page.
C11_ExpiredSentToLogin ==
    /\ resp.op = "authorize" /\ resp.status = 307
    /\ \E s \in sessions : /\ s.session_id = req.cookie
                           /\ s.expires_at < now

\* C12: the 302 that answers a login goes to a path on the same origin: a
\* target that starts with one "/" only.
C12_NoOpenRedirect ==
    (resp.op = "login" /\ resp.status = 302)
    => /\ StartsWith(resp.location, "/")
       /\ ~StartsWith(resp.location, "//")

\* C13: a request that reaches a handler of the /api router carried a bearer
\* token that verify_jwt accepts at that time.
C13_AdmittedTokenVerified ==
    \A g \in gate :
        g.response.handled
        => /\ g.authorization.scheme = "Bearer"
           /\ verify_jwt(g.authorization.token, g.at) # None

\* C14: a request to /api with an X-Auth-Request-Email header and no
\* Authorization header is answered 401 and reaches no handler.
C14_IdentityHeaderNotTrusted ==
    \A g \in gate :
        (g.user_email # "" /\ g.authorization = NoHeader)
        => /\ g.response.status = 401
           /\ ~g.response.handled

\* C15: a request to /api with neither an X-Auth-Request-Email header nor an
\* Authorization header is answered 401 and reaches no handler.
C15_NoCredentialRejected ==
    \A g \in gate :
        (g.user_email = "" /\ g.authorization = NoHeader)
        => /\ g.response.status = 401
           /\ ~g.response.handled
           /\ g.response.identity = ""

\* A request without any credential was turned away at each route.
C15_TurnedAway ==
    \E g \in gate :
        /\ g.user_email = "" /\ g.authorization = NoHeader
        /\ g.route \in ApiRoutes
        /\ g.response.status = 401

\* The exp of a signed token whose exp lay ahead when it was signed.
FutureExp(j) ==
    IF "exp" \in DOMAIN j.claims.members /\ j.claims.members.exp > j.signed_at
    THEN {j.claims.members.exp} ELSE {}

\* C16: verify_jwt returns the claims that sign_jwt was given while their exp
\* lies ahead, and None for the same token at every time after exp.
C16_RoundTrip ==
    \A j \in jwt : \A exp \in FutureExp(j) :
        /\ verify_jwt(j.token, j.signed_at) = j.claims
        /\ now < exp => verify_jwt(j.token, now) = j.claims
        /\ now > exp => verify_jwt(j.token, now) = None
        /\ \A c \in check :
              c.token = j.token
              => /\ c.at < exp => c.result = j.claims
                 /\ c.at > exp => c.result = None

\* A token was verified after its exp, which lay ahead when it was signed.
C16_VerifiedAfterExp ==
    \E j \in jwt, c \in check :
        /\ c.token = j.token
        /\ \E exp \in FutureExp(j) : c.at > exp
        /\ c.result = None

\* C17: verify_jwt returns None for a token of sign_jwt whose exp is not
\* after the time of the call.
C17_ExpNotAfterNow ==
    \A j \in jwt, c \in check :
        (/\ c.token = j.token
         /\ "exp" \in DOMAIN j.claims.members
         /\ j.claims.members.exp <= c.at)
        => c.result = None

\* C18: verify_jwt returns None for a three-segment token whose signature
\* segment is not the HMAC of its header and payload segments under SECRET,
\* and so for a token of sign_jwt with another payload segment put in.
C18_SignatureBinds ==
    \A c \in check :
        /\ (/\ Len(c.token) = 3
            /\ c.token[3] # b64url(hmac_sha256(SECRET, c.token[1], c.token[2])))
           => c.result = None
        /\ \A j \in jwt :
              (/\ Len(c.token) = 3
               /\ c.token[1] = j.token[1]
               /\ c.token[2] # j.token[2]
               /\ c.token[3] = j.token[3])
              => c.result = None

\* A token of sign_jwt with the encoding of other claims put in for its
\* payload was refused.
C18_TamperedRefused ==
    \E c \in check, j \in jwt :
        /\ Len(c.token) = 3
        /\ c.token[1] = j.token[1]
        /\ c.token[3] = j.token[3]
        /\ c.token[2] \in {b64url(json_dumps(d)) : d \in OtherClaims(j.claims)}
        /\ c.result = None

\* The tokens of which verify_jwt can make no claims: not three segments, or
\* a payload that is no base64, no JSON, no object, or has an exp that is
\* neither an integer nor the text of one.
Unreadable(token) ==
    \/ Len(token) # 3
    \/ LET bytes == urlsafe_b64decode(token[2])
       IN \/ bytes = {}
          \/ \E b \in bytes :
                \/ json_loads(b) = {}
                \/ \E d \in json_loads(b) :
                      \/ d.type # "object"
                      \/ \E e \in d.value.odd_exp :
                            ~(e.t = "str" /\ IsDecimal(e.v))

\* C19: verify_jwt returns None or claims for every string, None for one it
\* cannot read, and oauth_userinfo answers 401 where verify_jwt returns None.
C19_NeverRaises ==
    /\ \A c \in check :
          /\ c.result = None \/ "members" \in DOMAIN c.result
          /\ Unreadable(c.token) => c.result = None
    /\ \A i \in info :
          (/\ i.authorization.scheme = "Bearer"
           /\ \/ Unreadable(i.authorization.token)
              \/ verify_jwt(i.authorization.token, i.at) = None)
          => /\ i.response.status = 401
             /\ i.response.body = {}

\* The userinfo endpoint answered 401 to a correctly signed token whose
\* payload is no JSON.
C19_UnreadableAnswered401 ==
    \E i \in info :
        /\ i.authorization.scheme = "Bearer"
        /\ Len(i.authorization.token) = 3
        /\ Unreadable(i.authorization.token)
        /\ i.authorization.token[3] =
              b64url(hmac_sha256(SECRET, i.authorization.token[1],
                                 i.authorization.token[2]))
        /\ i.response.status = 401

\* C20: the response of a successful exchange has token_type "Bearer" and
\* expires_in TOKEN_TTL, and its access token verifies, with sub the id of
\* the user the code was issued to, aud the calling client, iss ISSUER and
\* exp = iat + TOKEN_TTL.
C20_AccessToken ==
    [][\A w \in Workers :
          (tok'[w].resp.token # {} /\ tok'[w] # tok[w])
          => /\ tok'[w].resp.status = 200
             /\ tok'[w].resp.token_type = "Bearer"
             /\ tok'[w].resp.expires_in = TOKEN_TTL
             /\ \A t \in tok'[w].resp.token :
                   LET p == verify_jwt(t, now')
                   IN /\ p # None
                      /\ \E k \in codeLog :
                            /\ k.row.code = tok'[w].code
                            /\ p.members.sub = ToString(k.row.user_id)
                      /\ p.members.aud = tok'[w].client_id
                      /\ p.members.iss = ISSUER
                      /\ p.members.exp = p.members.iat + TOKEN_TTL]_vars

\* An exchange returned a token that verifies for the calling client.
C20_TokenVerifies ==
    /\ tok[1].pc = "done" /\ tok[1].resp.token_type = "Bearer"
    /\ \E t \in tok[1].resp.token :
          /\ verify_jwt(t, now) # None
          /\ verify_jwt(t, now).members.aud = tok[1].client_id

\* ------------------------------------------------------------------------
\* C22: every auth code that oauth_authorize stores carries the user of the
\* session cookie of that request, the client_id and redirect_uri of that
\* request, and expires_at = the time of the request + CODE_TTL; a stored
\* code is afterwards only deleted, never altered.
\* ------------------------------------------------------------------------
C22_CodeBinding ==
    [][ /\ \A a \in auth_codes' \ auth_codes :
              LET q == ParseAuthorize(req'.url)
              IN /\ ~\E b \in auth_codes : b.code = a.code
                 /\ \E s \in sessions : /\ s.session_id = req'.cookie
                                        /\ s.user_id = a.user_id
                 /\ a.client_id = q.client_id
                 /\ a.redirect_uri = q.redirect_uri
                 /\ a.expires_at = now + CODE_TTL
                 /\ CODE_TTL = 300
        /\ \A a \in auth_codes :
              \A b \in auth_codes' : b.code = a.code => b = a ]_vars

\* A code is stored and is still there, unaltered, at a later time.
C22_CodeStored ==
    \E k \in codeLog : /\ k.row \in auth_codes
                       /\ k.issued_at < now
                       /\ k.row.client_id = "frontend-app"

\* ------------------------------------------------------------------------
\* C23: a successful authorization redirects to
\* redirect_uri?code=<code>&state=<state>, where <state> is the state of the
\* request unchanged, and the empty string when the request has none.
\* ------------------------------------------------------------------------
C23_StateEchoed ==
    \A k \in codeLog :
        (resp.op = "authorize" /\ QueryParam(resp.location, "code") = {k.row.code})
        => LET q == ParseAuthorize(req.url)
           IN /\ StartsWith(resp.location, q.redirect_uri \o "?code=")
              /\ QueryParam(resp.location, "state") = {q.state}

\* ------------------------------------------------------------------------
\* C24: for a caller with a live session, an authorization request whose
\* response_type is not "code" is refused as unsupported, and one whose
\* client_id is not registered is refused as an invalid client; neither
\* stores a code nor redirects anywhere.
\* ------------------------------------------------------------------------
C24_AuthorizeRefusals ==
    [][ LET q == ParseAuthorize(req'.url)
            refused(detail) == /\ resp'.status = 400
                               /\ StartsWith(resp'.detail, detail)
                               /\ resp'.location = ""
                               /\ auth_codes' = auth_codes
        IN (/\ resp'.op = "authorize"
            /\ <<req, resp>>' # <<req, resp>>
            /\ get_current_user(req'.cookie, now) # {})
           => /\ q.response_type # "code" => refused("unsupported response_type")
              /\ (/\ q.response_type = "code"
                  /\ ~\E c \in clients : c.client_id = q.client_id)
                 => refused("invalid client") ]_vars

\* An authenticated caller was refused for the response_type.
C24_ResponseTypeRefused ==
    /\ resp.op = "authorize" /\ resp.detail = "unsupported response_type"
    /\ get_current_user(req.cookie, now) # {}

\* ------------------------------------------------------------------------
\* C25: a token request whose grant_type is not "authorization_code" is
\* answered 400 in the first step of the call, whatever client, secret and
\* code it names, and leaves clients, auth_codes, sessions and users as they
\* were.
\* ------------------------------------------------------------------------
C25_GrantRefusedFirst ==
    [][ \A w \in Workers :
          (/\ tok[w].pc \in {"idle", "done"}
           /\ tok'[w] # tok[w]
           /\ tok'[w].grant_type # "authorization_code")
          => /\ tok'[w].pc = "done"
             /\ tok'[w].resp.status = 400
             /\ tok'[w].resp.detail = "unsupported grant_type"
             /\ tok'[w].resp.token = {}
             /\ UNCHANGED <<clients, auth_codes, sessions, users>> ]_vars

\* Another grant was asked with a code that is stored and usable, by a
\* client that is not registered.
C25_OtherGrantRefused ==
    \E w \in Workers :
        /\ tok[w].pc = "done" /\ tok[w].grant_type = "password"
        /\ tok[w].client_id = "ghost"
        /\ \E a \in auth_codes : a.code = tok[w].code /\ ~(a.expires_at < now)

\* ------------------------------------------------------------------------
\* C26: in every reachable state a session_id names one row of sessions,
\* whose user is the one who logged in and whose expires_at is the time of
\* that login + SESSION_TTL; no step alters a row that exists, and no login
\* takes a session_id that is in use.
\* ------------------------------------------------------------------------
C26_SessionFixed ==
    [][ /\ \A s, t \in sessions' : s.session_id = t.session_id => s = t
        /\ \A s \in sessions : \A t \in sessions' :
               t.session_id = s.session_id => t = s
        /\ \A t \in sessions' \ sessions :
               /\ ~\E s \in sessions : s.session_id = t.session_id
               /\ t.expires_at = now + SESSION_TTL
               /\ \E u \in users : u.id = t.user_id /\ u.username = req'.username ]_vars

\* Two users hold sessions, one of them created at a later time.
C26_TwoSessions ==
    \E s, t \in sessions : s.user_id # t.user_id /\ s.expires_at < t.expires_at

\* ------------------------------------------------------------------------
\* C21: oauth_userinfo answers 200 with the sub, email and name of the
\* token's claims exactly when the Authorization header is "Bearer <token>"
\* with a token that verify_jwt accepts, and 401 for every other header.
\* ------------------------------------------------------------------------
C21_UserinfoIffVerified ==
    \A i \in info :
        LET payload == verify_jwt(i.authorization.token, i.at)
        IN IF i.authorization.scheme = "Bearer" /\ payload # None
           THEN /\ i.response.status = 200
                /\ i.response.body = {[sub   |-> Get(payload, "sub"),
                                       email |-> Get(payload, "email"),
                                       name  |-> Get(payload, "name")]}
           ELSE i.response.status = 401 /\ i.response.body = {}

\* ------------------------------------------------------------------------
\* C27: no response of the login, authorization, token and userinfo
\* endpoints, successful or not, holds the client_secret of a registered
\* client: not in its detail, its Location, its cookie, the claims of a
\* token it returns, or the claims userinfo reports.
\* ------------------------------------------------------------------------
Contains(text, part) ==
    \E i \in 1..(Len(text) - Len(part) + 1) :
        SubSeq(text, i, i + Len(part) - 1) = part

\* The texts a response of login, authorize or token carries.
ResponseTexts(r) ==
    {r.detail, r.location, r.set_cookie, r.token_type}
    \cup UNION { {json.members[k] : k \in DOMAIN json.members \ {"iat", "exp"}} :
                   json \in UNION { {x.value : x \in
                              UNION {json_loads(b) : b \in urlsafe_b64decode(seg)}} :
                           seg \in UNION { {t[1], t[2]} : t \in r.token } } }

\* The texts a response of userinfo carries.
UserinfoTexts(r) ==
    {r.detail} \cup UNION { b.sub \cup b.email \cup b.name : b \in r.body }

ResponsesNow ==
    UNION ( {ResponseTexts(resp)}
            \cup {ResponseTexts(tok[w].resp) : w \in Workers}
            \cup {UserinfoTexts(i.response) : i \in info} )

C27_NoSecretInResponse ==
    \A c \in clients : \A text \in ResponsesNow : ~Contains(text, c.client_secret)

\* The authorization endpoint told a caller which redirect_uri a client
\* registered, while a token response is on record.
C27_ErrorNamesClient ==
    /\ resp.op = "authorize" /\ resp.status = 400
    /\ \E c \in clients : Contains(resp.detail, c.redirect_uri)
    /\ \E w \in Workers : tok[w].resp.token # {}

\* ------------------------------------------------------------------------
\* C28: every call of login, authorize, token and userinfo ends in a
\* response, and every response that is a failure has status 400, 401 or
\* 403: none is an unhandled exception (500) or any other status.
\* ------------------------------------------------------------------------
\* The responses on record of the four operations.
OperationResponses ==
    (IF resp.op \in {"login", "authorize"} THEN {resp.status} ELSE {})
    \cup {tok[w].resp.status : w \in {v \in Workers : tok[v].pc = "done"}}
    \cup {i.response.status : i \in info}

C28_FailuresAnswered ==
    /\ \A status \in OperationResponses :
           status \in {200, 302, 307} \/ status \in {400, 401, 403}
    /\ \A w \in Workers : tok[w].pc = "done" => tok[w].resp # NoResponse

\* ------------------------------------------------------------------------
\* C29: a logout deletes the session of the caller: once it is answered,
\* get_current_user finds no user for that session_id, though the session's
\* expires_at has not been reached.
\* ------------------------------------------------------------------------
C29_LogoutEndsSession ==
    [][ (resp'.op = "logout" /\ <<req, resp>>' # <<req, resp>>)
        => /\ ~\E s \in sessions' : s.session_id = req'.cookie
           /\ \A sid \in {req'.cookie} : get_current_user(sid, now)' = {} ]_vars

\* ------------------------------------------------------------------------
\* C30: users and clients rows come only from register_user and
\* register_client calls that carry the admin secret in X-Admin-Token; a
\* call without it is answered 403 and leaves both tables as they were.
\* ------------------------------------------------------------------------
C30_AdminProvisioning ==
    [][ (/\ resp'.op \in {"register_user", "register_client"}
         /\ <<req, resp>>' # <<req, resp>>)
        => IF req'.x_admin_token = ""
           THEN resp'.status = 403 /\ UNCHANGED <<users, clients>>
           ELSE \/ resp'.status = 403 /\ UNCHANGED <<users, clients>>
                \/ /\ resp'.status = 200
                   /\ \/ \E u \in users' \ users : u.username = req'.username
                      \/ clients' # clients ]_vars

\* ------------------------------------------------------------------------
\* C31: resolving a session writes nothing: a request that get_current_user
\* resolves leaves sessions, users and clients as they were, so a session
\* whose expires_at has passed is still a row of sessions afterwards, and
\* is refused by the comparison with the clock alone.
\* ------------------------------------------------------------------------
C31_ResolveReadOnly ==
    [][ (resp'.op = "authorize" /\ <<req', resp', codeLog'>> # <<req, resp, codeLog>>)
        => /\ sessions' = sessions /\ users' = users /\ clients' = clients
           /\ \A s \in sessions :
                 (s.session_id = req'.cookie /\ s.expires_at < now)
                 => /\ s \in sessions'
                    /\ StartsWith(resp'.location, "/idp/login?next=")
                    /\ auth_codes' = auth_codes ]_vars

\* An expired session was presented, refused, and is still stored.
C31_ExpiredStillStored ==
    /\ resp.op = "authorize" /\ StartsWith(resp.location, "/idp/login?next=")
    /\ \E s \in sessions : /\ s.session_id = req.cookie
                           /\ s.expires_at < now
                           /\ get_current_user(s.session_id, s.expires_at) # {}

\* ------------------------------------------------------------------------
\* C32: a token call that fails (another grant, unknown client or wrong
\* secret, code of another client, expired code) leaves auth_codes as it
\* was; a row leaves the table only in a call of the client it is bound to,
\* made with that client's secret, and after such a failure the rightful
\* client's call for a stored, unexpired code passes both checks.
\* ------------------------------------------------------------------------
C32_FailedExchangeKeepsCode ==
    [][ \A w \in Workers :
          /\ (tok'[w] # tok[w] /\ tok'[w].pc = "done" /\ tok'[w].resp.status # 200)
             => auth_codes' = auth_codes
          /\ \A a \in auth_codes \ auth_codes' :
                \E v \in Workers :
                   /\ tok[v].pc = "deleting" /\ tok'[v].pc = "done"
                   /\ tok'[v].code = a.code
                   /\ tok'[v].client_id = a.client_id
                   /\ tok'[v].grant_type = "authorization_code"
                   /\ \E c \in clients : /\ c.client_id = a.client_id
                                         /\ c.client_secret = tok'[v].client_secret
          /\ (/\ tok[w].pc \in {"idle", "done"} /\ tok'[w] # tok[w]
              /\ tok'[w].grant_type = "authorization_code"
              /\ \E c \in clients : /\ c.client_id = tok'[w].client_id
                                    /\ c.client_secret = tok'[w].client_secret)
             => tok'[w].pc = "client_ok"
          /\ (/\ tok[w].pc = "client_ok" /\ tok'[w] # tok[w]
              /\ \E a \in auth_codes : /\ a.code = tok[w].code
                                       /\ a.client_id = tok[w].client_id
                                       /\ ~(a.expires_at < now))
             => tok'[w].pc = "code_ok" ]_vars

\* A call of another client with its own secret was refused for a code that
\* is still stored and unexpired.
C32_WrongClientRefused ==
    \E w \in Workers, a \in auth_codes :
        /\ tok[w].pc = "done" /\ tok[w].resp.status = 400
        /\ tok[w].code = a.code /\ tok[w].client_id # a.client_id
        /\ ~(a.expires_at < now)

\* ------------------------------------------------------------------------
\* C33: the commit of a successful token call removes the row of the code
\* exchanged and nothing else: every other auth_codes row, and sessions,
\* users and clients, are as before, and every session resolves to the user
\* it resolved to.
\* ------------------------------------------------------------------------
C33_ExchangeRemovesOneRow ==
    [][ \A w \in Workers :
          (tok[w].pc = "deleting" /\ tok'[w].pc = "done" /\ tok'[w].resp.status = 200)
          => /\ auth_codes' \subseteq auth_codes
             /\ \A a \in auth_codes : (a \in auth_codes') = (a.code # tok[w].code)
             /\ UNCHANGED <<sessions, users, clients>>
             /\ \A s \in sessions :
                   get_current_user(s.session_id, now)' =
                   get_current_user(s.session_id, now) ]_vars

\* A code was exchanged while another code and two sessions were
\* outstanding, and they still are.
C33_OtherCodeOutstanding ==
    \E w \in Workers, a \in auth_codes :
        /\ tok[w].pc = "done" /\ tok[w].resp.status = 200
        /\ a.code # tok[w].code /\ ~(a.expires_at < now)
        /\ \E k \in codeLog : k.row.code = tok[w].code /\ k.row.user_id # a.user_id
        /\ \A s \in sessions : get_current_user(s.session_id, now) # {}
        /\ \E s, t \in sessions : s # t

\* ------------------------------------------------------------------------
\* C34: seed_data is idempotent.  A run keeps every row it finds, with its
\* secret, redirect_uri and password hash, adds the client frontend-app and
\* the user admin only where absent, leaves one row of each, and a further
\* run changes nothing.
\* ------------------------------------------------------------------------
C34_SeedIdempotent ==
    [][ LET after == [users |-> users', clients |-> clients']
        IN /\ users \subseteq users' /\ clients \subseteq clients'
           /\ Cardinality({u \in users' : u.username = "admin"}) = 1
           /\ Cardinality({c \in clients' : c.client_id = "frontend-app"}) = 1
           /\ \A u \in users' \ users :
                 u.username = "admin" /\ ~\E v \in users : v.username = "admin"
           /\ \A c \in clients' \ clients :
                 /\ c.client_id = "frontend-app"
                 /\ ~\E d \in clients : d.client_id = "frontend-app"
           /\ \A a, b \in users' : a.id = b.id => a = b
           /\ \A a, b \in clients' : a.id = b.id => a = b
           /\ seed_data(after) = after
           /\ seed_data(seed_data(after)) = after ]_vars

\* The default client was added next to an admin whose password had been
\* changed, and that password is still the changed one.
C34_SeededBesideChangedAdmin ==
    /\ \E c \in clients : c.client_id = "frontend-app"
                           /\ c.client_secret = "frontend-secret"
    /\ \E u \in users : u.username = "admin"
                         /\ u.password_hash = hash_password("changed")

\* C35: HTTPClientManager is a singleton.  However the coroutines' calls of
\* get_client interleave, no second AsyncClient is constructed while the one
\* before it is not closed, and as long as no close has touched a client,
\* every coroutine that returned from get_client holds the one client that
\* the manager holds.
C35_Singleton ==
    /\ Cardinality({i \in 1..Len(aclients) : aclients[i] # "closed"}) <= 1
    /\ (\A i \in 1..Len(aclients) : aclients[i] = "open")
          => /\ Len(aclients) <= 1
             /\ \A t \in Coroutines :
                    (co[t].op = "get_client" /\ co[t].pc = "done")
                       => co[t].ret = _client /\ co[t].ret # 0

\* Two coroutines went through get_client, one of them while the other
\* waited at the lock, and both hold the first client.
C35_BothHoldFirstClient ==
    /\ Len(aclients) = 1 /\ aclients[1] = "open"
    /\ \A t \in Coroutines :
          co[t].op = "get_client" /\ co[t].pc = "done" /\ co[t].ret = 1

\* C36: whenever a get_client call returns, under any interleaving with
\* close, the client it returns is one on which aclose has neither been
\* started nor completed.
C36_NeverReturnsClosing ==
    [][\A t \in Coroutines :
          (co[t].op = "get_client" /\ co[t].pc # "done" /\ co'[t].pc = "done")
             => aclients'[co'[t].ret] = "open"]_vars

\* The keys a cache holds.
CacheKeys(entries) == {entries[i].key : i \in 1..Len(entries)}

\* C37: after any sequence of set and get calls a cache holds at most
\* max_size entries, and a set on a full cache evicts an entry of the oldest
\* timestamp before it stores the new one: that key is gone afterwards,
\* unless it is the key being set, the other keys stay, and the new value is
\* stored under its key with the time of the call.
C37_BoundedEvictsOldest ==
    [][/\ Len(cache') <= max_size
       /\ (cacheCall' # cacheCall /\ cacheCall'.op = "set"
            /\ Len(cache) >= max_size)
          => \E i \in 1..Len(cache) :
                LET new == _generate_cache_key(cacheCall'.text)
                IN /\ \A j \in 1..Len(cache) :
                         cache[i].timestamp <= cache[j].timestamp
                   /\ CacheKeys(cache') =
                         (CacheKeys(cache) \ {cache[i].key}) \cup {new}
                   /\ \E k \in 1..Len(cache') :
                         cache'[k] = [key |-> new,
                                      result |-> cacheCall'.value,
                                      timestamp |-> now]]_vars

\* A set of a third text on a cache of two entries of different age left
\* the younger of them and the new one.
C37_OlderEvicted ==
    /\ cacheCall.op = "set" /\ cacheCall.text = "tori"
    /\ Len(cache) = max_size
    /\ CacheKeys(cache) = {_generate_cache_key("inu"),
                           _generate_cache_key("tori")}
    /\ lastSet["neko"] # ""
    /\ cache[1].timestamp < cache[2].timestamp

\* C38: get never returns an entry whose age is ttl or more: it deletes the
\* entry and returns None; an entry that is younger is returned, with the
\* value that the latest set stored for the text, and stays in the cache.
C38_GetHonoursTtl ==
    [][(cacheCall' # cacheCall /\ cacheCall'.op = "get")
          => LET key == _generate_cache_key(cacheCall'.text)
                 held == {i \in 1..Len(cache) : cache[i].key = key}
             IN /\ \A i \in held :
                      IF now - cache[i].timestamp >= ttl
                      THEN /\ cacheCall'.result = {}
                           /\ key \notin CacheKeys(cache')
                      ELSE /\ cacheCall'.result = {lastSet[cacheCall'.text]}
                           /\ cache' = cache
                /\ held = {} => cacheCall'.result = {} /\ cache' = cache]_vars

\* A get found an entry exactly ttl seconds old and deleted it, while a
\* younger entry stayed.
C38_ExpiredOnRead ==
    /\ cacheCall.op = "get" /\ cacheCall.result = {}
    /\ lastSet[cacheCall.text] # ""
    /\ cacheCall.at = ttl
    /\ Len(cache) = 1
    /\ _generate_cache_key(cacheCall.text) \notin CacheKeys(cache)

\* The translation that the LLM gives for a text, none when it fails or
\* answers with an empty string.
TranslationOf(text) ==
    llm_translate(text, extract_samples(rag_search(text)).samples) \ {""}

\* C39 as stated: the answer of /translate_batch has the length and order of
\* the texts, on the path of at most 15 texts and on the chunked path, and
\* element i is texts[i] itself when the RAG search or the translation of
\* that item failed or yielded nothing, and is the translation of texts[i]
\* otherwise.
C39_BatchAnswer ==
    \A r \in batch.response :
        /\ Len(r) = Len(batch.texts)
        /\ \A i \in 1..Len(r) :
              r[i] = IF \/ rag_search(batch.texts[i]) # "hits"
                        \/ TranslationOf(batch.texts[i]) = {}
                     THEN batch.texts[i]
                     ELSE CHOOSE s \in TranslationOf(batch.texts[i]) : TRUE

\* C39, amended: the answer of /translate_batch has the length and order of
\* the texts, on both paths, and element i is texts[i] itself when the
\* processing of that item raised or its translation failed or yielded
\* nothing, and is the translation of texts[i] otherwise; a RAG search that
\* failed or found nothing does not by itself put texts[i] in the place of
\* the translation.
C39_BatchAnswerAmended ==
    \A r \in batch.response :
        /\ Len(r) = Len(batch.texts)
        /\ \A i \in 1..Len(r) :
              r[i] = IF \/ rag_search(batch.texts[i]) = "malformed"
                        \/ TranslationOf(batch.texts[i]) = {}
                     THEN batch.texts[i]
                     ELSE CHOOSE s \in TranslationOf(batch.texts[i]) : TRUE

\* A request of 17 texts was answered over three chunks: one element is a
\* translation made after a failed RAG search, another is its text.
C39_ChunkedAnswer ==
    /\ Len(batch.texts) = 17 /\ Len(batch.gathers) = 3
    /\ \E r \in batch.response :
          /\ Len(r) = 17
          /\ \E i \in 9..17 : /\ batch.texts[i] = "arigato"
                               /\ r[i] = "en:arigato"
          /\ \E i \in 1..17 : /\ batch.texts[i] = "kaizen"
                               /\ r[i] = "kaizen"

\* The names of the OCR results that the container caches.
OcrResults(container) ==
    {b \in container :
        \E file \in UploadFiles :
            b.name = get_ocr_blob_name(calculate_file_hash(file.content))}

\* C40: when upload_pdf finds no cached OCR result for the file and the OCR
\* service gives no result (process_pdf returns None), the request is
\* answered with 502 and nothing is written to the cache of OCR results.
C40_NoResultAnswers502 ==
    [][(/\ upload'.status # 0
        /\ upload'.file.content_type = "application/pdf"
        /\ upload'.storage = "up"
        /\ ~upload'.cached
        /\ process_pdf(upload'.file.content, upload'.answer) = {}
        /\ <<blobs, upload>>' # <<blobs, upload>>)
          => /\ upload'.status = 502
             /\ OcrResults(blobs') = OcrResults(blobs)]_vars

====
